---- MODULE Spec2Model ----
(***************************************************************************)
(* A model of the DAG engine of internal/dag/dag.go (the current version,  *)
(* the first package in the file) over the key-value store of the store    *)
(* package.  Weights are float64 in the source; they are modelled as       *)
(* integers (exact arithmetic), so rounding is outside the model.          *)
(*                                                                         *)
(* Every engine call runs under the engine's exclusive lock, so a call is  *)
(* one atomic action.  The variables pre, last and base are history: they  *)
(* remember the call that has just returned so that properties of a call   *)
(* can be stated on the state it leaves; Return forgets them.              *)
(*                                                                         *)
(* The lock itself is the subject of SpecLock, in which goroutines call    *)
(* the engine concurrently, take and release the RWMutex, and a mutating   *)
(* call writes the store record by record.  The other specifications leave *)
(* mu and th as Init sets them.                                            *)
(***************************************************************************)
EXTENDS Integers, Sequences, FiniteSets, TLC

VARIABLES
    cfg,     \* the arguments New was called with
    d,       \* the DAG object: maxParents, defaultWeight
    store,   \* the key-value store: vertex ID -> serialized vertex
    pc,      \* "idle": no call running; "done": a call has just returned
    last,    \* the call that has just returned, and its result
    pre,     \* the store when that call started
    base,    \* for a DeleteNode that directly follows the AddNode of the same
             \* vertex: the store when that AddNode started
    negs,    \* how many vertices of negative weight have been stored so far
    mu,      \* the engine's sync.RWMutex: the writer and the readers inside
    th,      \* the goroutines that call the engine concurrently
    run,     \* a tip selection or ancestor traversal run loop round by round
    eng      \* two running programs, each configured as a peer of the other

vars == <<cfg, d, store, pc, last, pre, base, negs, mu, th, run, eng>>

----------------------------------------------------------------------------
(* Bounds of the model and the inputs the calls are drawn from.            *)

\* longest parents list a caller of AddNode supplies
MaxParentsLen == 2
\* longest vertex list a peer answers with
MaxPeerNodes == 2
\* most vertices of negative weight stored in one behaviour
MaxNegative == 1
\* the vertices of the largest store a tip selection is run on
MaxRing == 24

IDs == {"n1", "n2", "n3"}
DataValues == {"x"}
\* supplied weights: negative and zero ("take the default", 1)
WeightValues == {-1, 0}
\* New's arguments: maxParents unset (0) or 1, defaultWeight unset (0)
\* cumulative weights a caller supplies: unset (0) or a value of its own
CumulativeValues == {0, 4}
CfgMaxParents == {0, 1}
CfgDefaultWeight == {0}
\* the maxTips a caller of SelectTipsMCMC passes: unset (0), 1 or 2
MaxTipsValues == {0, 1, 2}

SeqsUpTo(S, n) == UNION {[1..k -> S] : k \in 0..n}

Range(s) == {s[i] : i \in DOMAIN s}

----------------------------------------------------------------------------
(* store.Node and its JSON encoding.                                       *)

\* A store.Node.  Parents is a Go slice: NilParents tells a nil slice (JSON
\* null, or the field absent) from an empty one (JSON []).
Node(id, data, nilParents, parents, weight, cw) ==
    [ID |-> id, Data |-> data, NilParents |-> nilParents, Parents |-> parents,
     Weight |-> weight, CumulativeWeight |-> cw]

\* The zero store.Node, standing for a nil *store.Node.
NoNode == Node("", "", TRUE, << >>, 0, 0)

\* A faulty Marshal: the data field is left out of the record.
Marshal_OmitData(node) ==
    << node.ID, "",
       IF node.NilParents THEN <<"null">> ELSE <<"array", node.Parents>>,
       node.Weight, node.CumulativeWeight >>

\* json.Marshal of a store.Node: the five fields in declaration order, a nil
\* slice as null.
Marshal(node) ==
    << node.ID, node.Data,
       IF node.NilParents THEN <<"null">> ELSE <<"array", node.Parents>>,
       node.Weight, node.CumulativeWeight >>

\* json.Unmarshal into a store.Node.
Unmarshal(data) ==
    [ID |-> data[1], Data |-> data[2],
     NilParents |-> (data[3][1] = "null"),
     Parents |-> IF data[3][1] = "null" THEN << >> ELSE data[3][2],
     Weight |-> data[4], CumulativeWeight |-> data[5]]

----------------------------------------------------------------------------
(* The store package.                                                      *)

EmptyStore == [k \in {} |-> << >>]

\* Store.AddNode: Put(node.ID, Marshal(node)), an upsert.
StoreAddNode(st, node) ==
    [k \in (DOMAIN st) \cup {node.ID} |->
        IF k = node.ID THEN Marshal(node) ELSE st[k]]

\* Store.GetNode finds a record (otherwise it returns nil, nil).
StoreHas(st, id) == id \in DOMAIN st

\* Store.GetNode for a key that is present.
StoreGetNode(st, id) == Unmarshal(st[id])

\* A faulty Store.DeleteNode: the record stays.
StoreDeleteNode_Noop(st, id) == st

\* Store.DeleteNode: deleting an absent key is no error.
StoreDeleteNode(st, id) == [k \in (DOMAIN st) \ {id} |-> st[k]]

\* Store.Iterator, decoded: the records of the whole key range.
Iterator(st) == {Unmarshal(st[k]) : k \in DOMAIN st}

----------------------------------------------------------------------------
(* dag.New                                                                 *)

New(maxParents, defaultWeight) ==
    [maxParents |-> IF maxParents <= 0 THEN 2 ELSE maxParents,
     defaultWeight |-> IF defaultWeight <= 0 THEN 1 ELSE defaultWeight]

----------------------------------------------------------------------------
(* Lookups of the engine.                                                  *)

\* A faulty isTipInternal: an ID that is not stored is no tip.
isTipInternal_AbsentNotTip(st, id) ==
    /\ StoreHas(st, id)
    /\ \A node \in Iterator(st) : id \notin Range(node.Parents)

\* DAG.isTipInternal: no record of the store lists id among its parents.
isTipInternal(st, id) ==
    \A node \in Iterator(st) : id \notin Range(node.Parents)

\* DAG.getChildren: the records that list parentID among their parents.
getChildren(st, parentID) ==
    {node.ID : node \in {n \in Iterator(st) : parentID \in Range(n.Parents)}}

\* A faulty checkCycle loop: a parent that is not stored is passed over.
RECURSIVE checkCycleFrom_NoMissing(_, _, _, _)
checkCycleFrom_NoMissing(st, nodeID, parents, i) ==
    IF i > Len(parents) THEN "OK"
    ELSE IF parents[i] = nodeID THEN "CycleDetected"
    ELSE checkCycleFrom_NoMissing(st, nodeID, parents, i + 1)

\* A faulty checkCycle loop: the vertex's own ID is passed over.
RECURSIVE checkCycleFrom_SkipSelf(_, _, _, _)
checkCycleFrom_SkipSelf(st, nodeID, parents, i) ==
    IF i > Len(parents) THEN "OK"
    ELSE IF parents[i] = nodeID
         THEN checkCycleFrom_SkipSelf(st, nodeID, parents, i + 1)
    ELSE IF ~StoreHas(st, parents[i]) THEN "ParentMissing"
    ELSE checkCycleFrom_SkipSelf(st, nodeID, parents, i + 1)

\* DAG.checkCycle, from the i-th parent on: the first parent that is the
\* vertex itself or is absent decides the error.
RECURSIVE checkCycleFrom(_, _, _, _)
checkCycleFrom(st, nodeID, parents, i) ==
    IF i > Len(parents) THEN "OK"
    ELSE IF parents[i] = nodeID THEN "CycleDetected"
    ELSE IF ~StoreHas(st, parents[i]) THEN "ParentMissing"
    ELSE checkCycleFrom(st, nodeID, parents, i + 1)

\* A faulty checkCycle: all the parents are looked up before any is compared
\* with the vertex's ID.
checkCycle_LookupFirst(st, nodeID, parents) ==
    IF \E i \in DOMAIN parents : ~StoreHas(st, parents[i]) THEN "ParentMissing"
    ELSE IF nodeID \in Range(parents) THEN "CycleDetected"
    ELSE "OK"

checkCycle(st, nodeID, parents) == checkCycleFrom(st, nodeID, parents, 1)

----------------------------------------------------------------------------
(* DAG.updateCumulativeWeights                                             *)

\* The loops over node.Parents and parent.Parents: every ID not yet in
\* ancestors is added to it and appended to the queue.
RECURSIVE enqueueUnseen(_, _, _)
enqueueUnseen(ids, ancestors, queue) ==
    IF ids = << >> THEN [ancestors |-> ancestors, queue |-> queue]
    ELSE IF Head(ids) \in ancestors
         THEN enqueueUnseen(Tail(ids), ancestors, queue)
         ELSE enqueueUnseen(Tail(ids), ancestors \cup {Head(ids)},
                            Append(queue, Head(ids)))

\* The breadth-first loop: pop the head, skip it when it is not stored, else
\* enqueue its unseen parents.
RECURSIVE collectAncestors(_, _, _)
collectAncestors(st, ancestors, queue) ==
    IF queue = << >> THEN ancestors
    ELSE LET current == Head(queue)
             rest == Tail(queue)
         IN  IF ~StoreHas(st, current)
             THEN collectAncestors(st, ancestors, rest)
             ELSE LET e == enqueueUnseen(StoreGetNode(st, current).Parents,
                                         ancestors, rest)
                  IN  collectAncestors(st, e.ancestors, e.queue)

\* A faulty addDelta: the sum is written back as it is.
addDelta_NoClamp(anc, delta) ==
    [anc EXCEPT !.CumulativeWeight = anc.CumulativeWeight + delta]

\* anc.CumulativeWeight += delta, raised to anc.Weight when it falls below.
addDelta(anc, delta) ==
    LET sum == anc.CumulativeWeight + delta
    IN  [anc EXCEPT !.CumulativeWeight = IF sum < anc.Weight THEN anc.Weight ELSE sum]

\* The loop over the ancestors map: read, add, write back; an ancestor that
\* is not stored is skipped.  The keys are distinct, so the map's iteration
\* order does not show in the result.
RECURSIVE applyDelta(_, _, _)
applyDelta(st, ancestors, delta) ==
    IF ancestors = {} THEN st
    ELSE LET ancID == CHOOSE a \in ancestors : TRUE
             rest == ancestors \ {ancID}
         IN  IF ~StoreHas(st, ancID)
             THEN applyDelta(st, rest, delta)
             ELSE applyDelta(StoreAddNode(st, addDelta(StoreGetNode(st, ancID), delta)),
                             rest, delta)

updateCumulativeWeights(st, node, delta) ==
    IF Len(node.Parents) = 0 THEN st
    ELSE LET seed == enqueueUnseen(node.Parents, {}, << >>)
             ancestors == collectAncestors(st, seed.ancestors, seed.queue)
         IN  applyDelta(st, ancestors, delta)

----------------------------------------------------------------------------
(* MCMC tip selection.  The random draws are choices: an operator returns  *)
(* the set of the results the draws can produce.                           *)

\* A faulty max: the smaller of the two.
max_Min(a, b) == IF a > b THEN b ELSE a

max(a, b) == IF a > b THEN a ELSE b

\* DAG.getRandomNode on a non-empty store: rand.Intn picks any key.
getRandomNode(st) == DOMAIN st

\* weightedRandomChoice: every child weighs at least 0.0001, so every child
\* can be drawn.
weightedRandomChoice(children) == children

\* A faulty walk: the start vertex is taken for a tip without a check.
walk_NoTipCheck(st, current, steps, maxWalkSteps) == {{current}}

\* One walk from current with steps steps taken: the sets of IDs it can add
\* to tips ({} when the step budget runs out before a tip is met).
RECURSIVE walk(_, _, _, _)
walk(st, current, steps, maxWalkSteps) ==
    IF ~(steps < maxWalkSteps) THEN {{}}
    ELSE IF isTipInternal(st, current) THEN {{current}}
    ELSE LET children == getChildren(st, current)
         IN  IF children = {} THEN {{current}}
             ELSE UNION {walk(st, next, steps + 1, maxWalkSteps) :
                            next \in weightedRandomChoice(children)}

\* The attempts loop: tipsSets holds the values tips can have; an attempt is
\* made from a value with fewer than maxTips entries while attempts remain.
RECURSIVE attemptLoop(_, _, _, _, _)
attemptLoop(st, tipsSets, maxTips, maxAttempts, maxWalkSteps) ==
    IF ~(maxAttempts > 0) THEN tipsSets
    ELSE LET found == UNION {walk(st, start, 0, maxWalkSteps) :
                                start \in getRandomNode(st)}
             full == {tips \in tipsSets : ~(Cardinality(tips) < maxTips)}
             open == tipsSets \ full
             next == full \cup {tips \cup f : tips \in open, f \in found}
         IN  \* once an attempt adds no new value, the later ones add none
             IF next = tipsSets THEN tipsSets
             ELSE attemptLoop(st, next, maxTips, maxAttempts - 1, maxWalkSteps)

\* A faulty result slice: an ID may be appended more than once.
Orderings_Repeat(tips) == [1..2 -> tips]

\* The result slice is filled by ranging over the tips map: any order.
Orderings(tips) ==
    {s \in [1..Cardinality(tips) -> tips] : Range(s) = tips}

\* A faulty tip selection: the start vertex of a walk is returned.
selectTipsMCMCInternal_AnyNode(st, dd, maxTipsArg) ==
    IF DOMAIN st = {} THEN {[err |-> "EmptyDAG", tips |-> << >>]}
    ELSE {[err |-> "OK", tips |-> <<k>>] : k \in getRandomNode(st)}

selectTipsMCMCInternal(st, dd, maxTipsArg) ==
    LET maxTips == IF maxTipsArg <= 0 THEN dd.maxParents ELSE maxTipsArg
        nodeCount == Cardinality(DOMAIN st)
    IN  IF nodeCount = 0 THEN {[err |-> "EmptyDAG", tips |-> << >>]}
        ELSE LET finals == attemptLoop(st, {{}}, maxTips, 10 * maxTips,
                                       max(10, nodeCount \div 2))
             IN  UNION {IF tips = {}
                        THEN {[err |-> "NoTips", tips |-> << >>]}
                        ELSE {[err |-> "OK", tips |-> s] : s \in Orderings(tips)} :
                        tips \in finals}

----------------------------------------------------------------------------
(* The mutating calls, as functions of the store.                          *)

\* A faulty parent selection: "no nodes in DAG" is returned like any other
\* error of the tip selection.
selectParents_EmptyFatal(st, dd, node) ==
    IF ~node.NilParents THEN {[err |-> "OK", node |-> node]}
    ELSE {IF sel.err = "OK"
          THEN [err |-> "OK",
                node |-> [node EXCEPT !.Parents = sel.tips, !.NilParents = FALSE]]
          ELSE [err |-> "SelectParents", node |-> node] :
          sel \in selectTipsMCMCInternal(st, dd, 2)}

\* A faulty parent selection: an empty Parents asks for tips like a nil one.
selectParents_AutoOnEmpty(st, dd, node) ==
    IF Len(node.Parents) # 0 THEN {[err |-> "OK", node |-> node]}
    ELSE {IF sel.err = "OK"
          THEN [err |-> "OK",
                node |-> [node EXCEPT !.Parents = sel.tips, !.NilParents = FALSE]]
          ELSE IF sel.err = "EmptyDAG"
               THEN [err |-> "OK", node |-> node]
               ELSE [err |-> "SelectParents", node |-> node] :
          sel \in selectTipsMCMCInternal(st, dd, 2)}

\* AddNode, the parent selection: a nil Parents asks tip selection for 2
\* tips; "no nodes in DAG" leaves Parents nil, any other error is returned.
selectParents(st, dd, node) ==
    IF ~node.NilParents THEN {[err |-> "OK", node |-> node]}
    ELSE {IF sel.err = "OK"
          THEN [err |-> "OK",
                node |-> [node EXCEPT !.Parents = sel.tips, !.NilParents = FALSE]]
          ELSE IF sel.err = "EmptyDAG"
               THEN [err |-> "OK", node |-> node]
               ELSE [err |-> "SelectParents", node |-> node] :
          sel \in selectTipsMCMCInternal(st, dd, 2)}

\* A faulty AddNode: the length of Parents is not checked.
validateAndStore_NoSizeCheck(st, dd, node) ==
    LET c == checkCycle(st, node.ID, node.Parents)
    IN  IF c # "OK" THEN [err |-> c, store |-> st, node |-> node]
        ELSE LET weight == IF node.Weight = 0 THEN dd.defaultWeight
                                              ELSE node.Weight
                 stored == [node EXCEPT !.Weight = weight,
                                        !.CumulativeWeight = weight]
             IN  [err |-> "OK",
                  store |-> updateCumulativeWeights(StoreAddNode(st, stored),
                                                    stored, stored.Weight),
                  node |-> stored]

\* A faulty AddNode: the cumulative weight the caller supplied is stored.
validateAndStore_KeepCumulative(st, dd, node) ==
    IF dd.maxParents > 0 /\ Len(node.Parents) > dd.maxParents
    THEN [err |-> "TooManyParents", store |-> st, node |-> node]
    ELSE LET c == checkCycle(st, node.ID, node.Parents)
         IN  IF c # "OK" THEN [err |-> c, store |-> st, node |-> node]
             ELSE LET weight == IF node.Weight = 0 THEN dd.defaultWeight
                                                   ELSE node.Weight
                      stored == [node EXCEPT !.Weight = weight]
                  IN  [err |-> "OK",
                       store |-> updateCumulativeWeights(StoreAddNode(st, stored),
                                                         stored, stored.Weight),
                       node |-> stored]

\* AddNode from the size check on: validate, normalise the weight, store the
\* vertex and propagate its weight to its ancestors.
validateAndStore(st, dd, node) ==
    IF dd.maxParents > 0 /\ Len(node.Parents) > dd.maxParents
    THEN [err |-> "TooManyParents", store |-> st, node |-> node]
    ELSE LET c == checkCycle(st, node.ID, node.Parents)
         IN  IF c # "OK" THEN [err |-> c, store |-> st, node |-> node]
             ELSE LET weight == IF node.Weight = 0 THEN dd.defaultWeight
                                                   ELSE node.Weight
                      stored == [node EXCEPT !.Weight = weight,
                                             !.CumulativeWeight = weight]
                  IN  [err |-> "OK",
                       store |-> updateCumulativeWeights(StoreAddNode(st, stored),
                                                         stored, stored.Weight),
                       node |-> stored]

\* A faulty AddNode: a stored ID is not looked for, the vertex is written
\* over.
DAGAddNode_Overwrite(st, dd, node) ==
    {IF p.err # "OK"
     THEN [err |-> p.err, store |-> st, node |-> node]
     ELSE validateAndStore(st, dd, p.node) :
     p \in selectParents(st, dd, node)}

\* DAG.AddNode: the results the call can have (the error kind, the store it
\* leaves and the caller's node as the call leaves it).
DAGAddNode(st, dd, node) ==
    IF StoreHas(st, node.ID)
    THEN {[err |-> "AlreadyExists", store |-> st, node |-> node]}
    ELSE {IF p.err # "OK"
          THEN [err |-> p.err, store |-> st, node |-> node]
          ELSE validateAndStore(st, dd, p.node) :
          p \in selectParents(st, dd, node)}

\* A faulty DeleteNode: the scan for children is left out.
DAGDeleteNode_NoChildScan(st, id) ==
    IF ~StoreHas(st, id) THEN [err |-> "NotFound", store |-> st]
    ELSE LET node == StoreGetNode(st, id)
         IN  [err |-> "OK",
              store |-> StoreDeleteNode(
                            updateCumulativeWeights(st, node, 0 - node.Weight), id)]

\* DAG.DeleteNode.
DAGDeleteNode(st, id) ==
    IF ~StoreHas(st, id) THEN [err |-> "NotFound", store |-> st]
    ELSE IF \E n \in Iterator(st) : id \in Range(n.Parents)
         THEN [err |-> "HasChildren", store |-> st]
         ELSE LET node == StoreGetNode(st, id)
              IN  [err |-> "OK",
                   store |-> StoreDeleteNode(
                                 updateCumulativeWeights(st, node, 0 - node.Weight), id)]

\* DAG.SyncWithPeer, the loop over the decoded vertex list.
RECURSIVE syncLoop(_, _, _, _)
syncLoop(st, dd, nodes, mergedNodes) ==
    IF nodes = << >> THEN [store |-> st, merged |-> mergedNodes]
    ELSE LET node == Head(nodes)
         IN  IF StoreHas(st, node.ID)
             THEN syncLoop(st, dd, Tail(nodes), mergedNodes)
             ELSE IF checkCycle(st, node.ID, node.Parents) # "OK"
             THEN syncLoop(st, dd, Tail(nodes), mergedNodes)
             ELSE IF dd.maxParents > 0 /\ Len(node.Parents) > dd.maxParents
             THEN syncLoop(st, dd, Tail(nodes), mergedNodes)
             ELSE LET weight == IF node.Weight = 0 THEN dd.defaultWeight
                                                   ELSE node.Weight
                      stored == [node EXCEPT !.Weight = weight,
                                             !.CumulativeWeight = weight]
                  IN  syncLoop(updateCumulativeWeights(StoreAddNode(st, stored),
                                                       stored, stored.Weight),
                               dd, Tail(nodes), Append(mergedNodes, node.ID))

\* DAG.getNodeInternal: the stored vertex, or nil for a key that is absent.
getNodeInternal(st, id) ==
    IF StoreHas(st, id) THEN StoreGetNode(st, id) ELSE NoNode

\* Handler.SyncNodes, the loop: AddNode for each listed vertex in order, a
\* vertex whose AddNode fails is skipped.  The results the loop can have.
RECURSIVE batchAddNode(_, _, _, _)
batchAddNode(st, dd, nodes, mergedNodes) ==
    IF nodes = << >> THEN {[store |-> st, merged |-> mergedNodes]}
    ELSE UNION {IF r.err = "OK"
                THEN batchAddNode(r.store, dd, Tail(nodes),
                                  Append(mergedNodes, Head(nodes).ID))
                ELSE batchAddNode(st, dd, Tail(nodes), mergedNodes) :
                r \in DAGAddNode(st, dd, Head(nodes))}

----------------------------------------------------------------------------
(* The RWMutex and the goroutines.                                         *)

Threads == {"t1", "t2"}

\* The zero sync.RWMutex.
Unlocked == [writer |-> "none", readers |-> {}]

\* A goroutine outside the engine.  Inside a call: op is the call, id the
\* vertex being written, todo the ancestors still to be updated by delta,
\* nodes the peer's vertices still to be merged, obs the stores the call has
\* read so far; inside Handler.GetNode: got the vertex GetNode returned,
\* snap whether no record listed id in the store got was read from, and tip
\* the answer of IsTip.
IdleThread == [pc |-> "idle", op |-> "none", id |-> "", todo |-> {},
               delta |-> 0, nodes |-> << >>, obs |-> << >>,
               got |-> NoNode, snap |-> FALSE, tip |-> FALSE]

----------------------------------------------------------------------------
(* The state machine.                                                      *)

NoCall == [op |-> "none", id |-> "", err |-> "", node |-> NoNode,
           merged |-> << >>, retracts |-> FALSE,
           nodes |-> << >>, arg |-> 0, tips |-> << >>, isTip |-> FALSE,
           found |-> FALSE, text |-> << >>, status |-> 0]

\* The loop variables of a tip selection or an ancestor traversal that is
\* run step by step: none is running.  walks counts the walks started, iters
\* the rounds of the current walk's loop, enqueued the IDs appended to the
\* traversal's queue so far.
NoRun == [phase |-> "idle", op |-> "none", arg |-> 0, maxTips |-> 0,
          maxAttempts |-> 0, maxWalkSteps |-> 0, tips |-> {}, current |-> "",
          steps |-> 0, walks |-> 0, iters |-> 0, result |-> "",
          ancestors |-> {}, queue |-> << >>, enqueued |-> << >>]

\* The two programs, and the peers each is configured with: the other
\* program and a server that is not this program.
Engines == {"A", "B"}
Targets == {"peer", "X"}

\* A sync goroutine that main has not started.  Once started: req is the
\* state of its GET /nodes, status, decodes and nodes the reply, peerLocked
\* whether the other program's exclusive lock was held when it replied, pre
\* the store when the goroutine took the lock, err what the call returns.
IdleSync == [pc |-> "idle", req |-> "none", status |-> 0, decodes |-> FALSE,
             nodes |-> << >>, peerLocked |-> FALSE, pre |-> EmptyStore,
             err |-> ""]

\* A program whose engine is new: an empty store, the lock free, no sync
\* goroutine running.
IdleEngine == [store |-> EmptyStore, writer |-> "none",
               sy |-> [p \in Targets |-> IdleSync]]

\* What a caller can hand to AddNode.
AddNodeInputs ==
    UNION {{Node(id, data, TRUE, << >>, w, cw) :
                id \in IDs, data \in DataValues, w \in WeightValues} :
           cw \in CumulativeValues}
    \cup
    UNION {{Node(id, data, FALSE, ps, w, cw) :
                id \in IDs, data \in DataValues, w \in WeightValues} :
           ps \in SeqsUpTo(IDs, MaxParentsLen), cw \in CumulativeValues}

\* The vertices a peer's GET /nodes can list.
PeerNodes ==
    { Node("n1", "x", TRUE, << >>, 0, 3),
      Node("n1", "x", FALSE, <<"n1">>, 0, 0),
      Node("n2", "x", FALSE, <<"n1">>, 2, 7),
      Node("n2", "x", FALSE, <<"n1", "n1">>, 0, 0),
      Node("n3", "x", FALSE, <<"n1", "n2">>, 0, 0),
      Node("n3", "x", TRUE, << >>, -1, 0) }

\* The vertices of negative weight among the stored ones of a call.
Negatives(st, ids) == Cardinality({id \in ids : StoreGetNode(st, id).Weight < 0})

Init ==
    /\ cfg \in [maxParents : CfgMaxParents, defaultWeight : CfgDefaultWeight]
    /\ d = New(cfg.maxParents, cfg.defaultWeight)
    /\ store = EmptyStore
    /\ pc = "idle"
    /\ last = NoCall
    /\ pre = EmptyStore
    /\ base = EmptyStore
    /\ negs = 0
    /\ mu = Unlocked
    /\ th = [t \in Threads |-> IdleThread]
    /\ run = NoRun
    /\ eng = [e \in Engines |-> IdleEngine]

AddNode(node) ==
    /\ pc = "idle"
    /\ \E r \in DAGAddNode(store, d, node) :
          /\ store' = r.store
          /\ last' = [NoCall EXCEPT !.op = "AddNode", !.id = node.ID,
                                    !.err = r.err, !.node = node]
          /\ negs' = IF r.err = "OK" THEN negs + Negatives(r.store, {node.ID})
                                     ELSE negs
    /\ negs' <= MaxNegative
    /\ pre' = store
    /\ base' = EmptyStore
    /\ pc' = "done"
    /\ UNCHANGED <<cfg, d, eng, run, mu, th>>

\* A DeleteNode may also directly follow the successful AddNode of the same
\* vertex; base then keeps the store from before that AddNode.
DeleteNode(id) ==
    LET follows == pc = "done" /\ last.op = "AddNode" /\ last.err = "OK"
                               /\ last.id = id
        r == DAGDeleteNode(store, id)
    IN  /\ pc = "idle" \/ follows
        /\ store' = r.store
        /\ last' = [NoCall EXCEPT !.op = "DeleteNode", !.id = id, !.err = r.err,
                                  !.retracts = follows]
        /\ pre' = store
        /\ base' = IF follows THEN pre ELSE EmptyStore
        /\ pc' = "done"
        /\ UNCHANGED <<cfg, d, eng, run, negs, mu, th>>

\* The peer answered 200 with a decodable vertex list.
SyncWithPeer(nodes) ==
    LET r == syncLoop(store, d, nodes, << >>)
    IN  /\ pc = "idle"
        /\ store' = r.store
        /\ last' = [NoCall EXCEPT !.op = "SyncWithPeer", !.err = "OK",
                                  !.merged = r.merged, !.nodes = nodes]
        /\ negs' = negs + Negatives(r.store, Range(r.merged))
        /\ negs' <= MaxNegative
        /\ pre' = store
        /\ base' = EmptyStore
        /\ pc' = "done"
        /\ UNCHANGED <<cfg, d, eng, run, mu, th>>

\* The fetch failed, the status was not 200 or the body did not decode.
SyncWithPeerFails ==
    /\ pc = "idle"
    /\ last' = [NoCall EXCEPT !.op = "SyncWithPeer", !.err = "PeerError"]
    /\ pre' = store
    /\ base' = EmptyStore
    /\ pc' = "done"
    /\ UNCHANGED <<cfg, d, eng, run, store, negs, mu, th>>

\* DAG.SelectTipsMCMC: a read of the store.
SelectTipsMCMC(maxTips) ==
    /\ pc = "idle"
    /\ \E r \in selectTipsMCMCInternal(store, d, maxTips) :
          last' = [NoCall EXCEPT !.op = "SelectTipsMCMC", !.arg = maxTips,
                                 !.err = r.err, !.tips = r.tips]
    /\ pre' = store
    /\ base' = EmptyStore
    /\ pc' = "done"
    /\ UNCHANGED <<cfg, d, eng, run, store, negs, mu, th>>

\* DAG.IsTip: a read of the store.
IsTip(id) ==
    /\ pc = "idle"
    /\ last' = [NoCall EXCEPT !.op = "IsTip", !.id = id, !.err = "OK",
                              !.isTip = isTipInternal(store, id)]
    /\ pre' = store
    /\ base' = EmptyStore
    /\ pc' = "done"
    /\ UNCHANGED <<cfg, d, eng, run, store, negs, mu, th>>

\* DAG.GetNode: a read of the store; a key that is absent gives nil, nil.
GetNode(id) ==
    /\ pc = "idle"
    /\ last' = [NoCall EXCEPT !.op = "GetNode", !.id = id, !.err = "OK",
                              !.found = StoreHas(store, id),
                              !.node = getNodeInternal(store, id)]
    /\ pre' = store
    /\ base' = EmptyStore
    /\ pc' = "done"
    /\ UNCHANGED <<cfg, d, eng, run, store, negs, mu, th>>

\* The caller has taken the result.
Return ==
    /\ pc = "done"
    /\ pc' = "idle"
    /\ last' = NoCall
    /\ pre' = EmptyStore
    /\ base' = EmptyStore
    /\ UNCHANGED <<cfg, d, eng, run, store, negs, mu, th>>

Next ==
    \/ \E node \in AddNodeInputs : AddNode(node)
    \/ \E id \in IDs : DeleteNode(id)
    \/ \E nodes \in SeqsUpTo(PeerNodes, MaxPeerNodes) : SyncWithPeer(nodes)
    \/ SyncWithPeerFails
    \/ \E maxTips \in MaxTipsValues : SelectTipsMCMC(maxTips)
    \/ \E id \in IDs : IsTip(id)
    \/ \E id \in IDs : GetNode(id)
    \/ Return

Spec == Init /\ [][Next]_vars

----------------------------------------------------------------------------
(* The HTTP facade.  An error text is the sequence of its words, and       *)
(* strings.Contains is the search for a run of words; an ID stands in a     *)
(* text with the words it is made of.                                      *)

\* IDs of the requests: two plain ones and one of two words.
HTTPIDs == {"n1", "n2", "not found"}

\* The words of an ID.
Words(id) == IF id = "not found" THEN <<"not", "found">> ELSE <<id>>

\* strings.Contains(text, pattern), both as words.
Contains(text, pattern) ==
    \E i \in 1..(Len(text) - Len(pattern) + 1) :
        SubSeq(text, i, i + Len(pattern) - 1) = pattern

\* checkCycle's parentID when it returns an error: the first parent that is
\* the vertex itself or is not stored.
offendingParent(st, nodeID, parents) ==
    LET bad == {i \in DOMAIN parents :
                   parents[i] = nodeID \/ ~StoreHas(st, parents[i])}
    IN  parents[CHOOSE i \in bad : \A j \in bad : i <= j]

\* The texts of the errors AddNode returns (fmt.Errorf), the numbers of the
\* too-many-parents text left out.
AddNodeErrorText(err, st, node) ==
    CASE err = "AlreadyExists" ->
            <<"node", "with", "ID">> \o Words(node.ID) \o <<"already", "exists">>
      [] err = "SelectParents" ->
            <<"failed", "to", "select", "parents", ":", "no", "tips", "available">>
      [] err = "TooManyParents" ->
            <<"node">> \o Words(node.ID)
                \o <<"has", "too", "many", "parents", ":", "max", "allowed">>
      [] err = "CycleDetected" ->
            <<"cycle", "detected", ":", "node">> \o Words(node.ID)
                \o <<"cannot", "be", "its", "own", "parent">>
      [] err = "ParentMissing" ->
            <<"parent">> \o Words(offendingParent(st, node.ID, node.Parents))
                \o <<"does", "not", "exist">>
      [] OTHER -> << >>

\* The texts of the errors DeleteNode returns.
DeleteNodeErrorText(err, id) ==
    CASE err = "NotFound" ->
            <<"node", "with", "ID">> \o Words(id) \o <<"not", "found">>
      [] err = "HasChildren" ->
            <<"cannot", "delete", "node">> \o Words(id)
                \o <<"because", "it", "has", "children">>
      [] OTHER -> << >>

\* Handler.AddNode, the status it answers for the engine's result.
HandlerAddNodeStatus(err, text) ==
    IF err # "OK"
    THEN IF Contains(text, <<"already", "exists">>) THEN 409
         ELSE IF \/ Contains(text, <<"cycle", "detected">>)
                 \/ Contains(text, <<"parent", "does", "not", "exist">>)
              THEN 400
              ELSE 500
    ELSE 201

\* Handler.DeleteNode, the status it answers for the engine's result.
HandlerDeleteNodeStatus(err, text) ==
    IF err # "OK"
    THEN IF Contains(text, <<"not", "found">>) THEN 404
         ELSE IF Contains(text, <<"has", "children">>) THEN 409
              ELSE 500
    ELSE 200

\* What a client can post: weight unset, parents null or a list.
HandlerInputs ==
    {Node(id, data, TRUE, << >>, 0, 0) : id \in HTTPIDs, data \in DataValues}
    \cup
    UNION {{Node(id, data, FALSE, ps, 0, 0) : id \in HTTPIDs, data \in DataValues} :
           ps \in SeqsUpTo(HTTPIDs, MaxParentsLen)}

\* POST /nodes with a body that decodes.
HandlerAddNode(node) ==
    /\ pc = "idle"
    /\ \E r \in DAGAddNode(store, d, node) :
          LET text == AddNodeErrorText(r.err, store, r.node)
          IN  /\ store' = r.store
              /\ last' = [NoCall EXCEPT
                              !.op = "HandlerAddNode", !.id = node.ID,
                              !.err = r.err, !.node = node, !.text = text,
                              !.status = HandlerAddNodeStatus(r.err, text)]
    /\ pre' = store
    /\ base' = EmptyStore
    /\ pc' = "done"
    /\ UNCHANGED <<cfg, d, eng, run, negs, mu, th>>

\* POST /nodes with a body that does not decode.
HandlerAddNodeInvalid ==
    /\ pc = "idle"
    /\ last' = [NoCall EXCEPT !.op = "HandlerAddNode", !.err = "InvalidPayload",
                              !.text = <<"Invalid", "request", "payload">>,
                              !.status = 400]
    /\ pre' = store
    /\ base' = EmptyStore
    /\ pc' = "done"
    /\ UNCHANGED <<cfg, d, eng, run, store, negs, mu, th>>

\* DELETE /nodes/{id}.
HandlerDeleteNode(id) ==
    LET r == DAGDeleteNode(store, id)
        text == DeleteNodeErrorText(r.err, id)
    IN  /\ pc = "idle"
        /\ store' = r.store
        /\ last' = [NoCall EXCEPT
                        !.op = "HandlerDeleteNode", !.id = id, !.err = r.err,
                        !.text = text,
                        !.status = HandlerDeleteNodeStatus(r.err, text)]
        /\ pre' = store
        /\ base' = EmptyStore
        /\ pc' = "done"
        /\ UNCHANGED <<cfg, d, eng, run, negs, mu, th>>

NextHTTP ==
    \/ \E node \in HandlerInputs : HandlerAddNode(node)
    \/ HandlerAddNodeInvalid
    \/ \E id \in HTTPIDs : HandlerDeleteNode(id)
    \/ Return

SpecHTTP == Init /\ [][NextHTTP]_vars

----------------------------------------------------------------------------
(* The engine under concurrent callers.  A goroutine calls, takes the lock *)
(* its call takes, runs the call's reads and writes one store access at a  *)
(* time and releases the lock.  pre is here the store as the last mutating *)
(* call left it at its Unlock.                                             *)

WriterOps == {"AddNode", "DeleteNode", "SyncWithPeer"}
ReaderOps == {"GetNode", "GetAllNodes", "IsTip", "SelectTipsMCMC"}

\* The vertices the concurrent callers add: weight and cumulative weight
\* unset.
LockAddInputs == {node \in AddNodeInputs : node.Weight = 0 /\ node.CumulativeWeight = 0}

\* The vertices a peer lists to the concurrent engine.
LockPeerNodes ==
    { Node("n1", "x", TRUE, << >>, 0, 3),
      Node("n2", "x", FALSE, <<"n1">>, 2, 7),
      Node("n3", "x", FALSE, <<"n1", "n2">>, 0, 0) }

\* AddNode and SyncWithPeer, the checks between the lookup of the ID and the
\* write: the error, or the vertex as it is going to be stored.
admit(st, dd, node) ==
    IF dd.maxParents > 0 /\ Len(node.Parents) > dd.maxParents
    THEN [err |-> "TooManyParents", node |-> node]
    ELSE LET c == checkCycle(st, node.ID, node.Parents)
             weight == IF node.Weight = 0 THEN dd.defaultWeight ELSE node.Weight
         IN  IF c # "OK" THEN [err |-> c, node |-> node]
             ELSE [err |-> "OK",
                   node |-> [node EXCEPT !.Weight = weight,
                                         !.CumulativeWeight = weight]]

\* updateCumulativeWeights, the ancestors map after the breadth-first loop.
ancestorsOf(st, node) ==
    IF Len(node.Parents) = 0 THEN {}
    ELSE LET seed == enqueueUnseen(node.Parents, {}, << >>)
         IN  collectAncestors(st, seed.ancestors, seed.queue)

\* A faulty round of the loop: the sum is written back without the clamp.
updateAncestor_NoClamp(st, ancID, delta) ==
    IF ~StoreHas(st, ancID) THEN st
    ELSE StoreAddNode(st, addDelta_NoClamp(StoreGetNode(st, ancID), delta))

\* updateCumulativeWeights, one round of the loop over the ancestors map.
updateAncestor(st, ancID, delta) ==
    IF ~StoreHas(st, ancID) THEN st
    ELSE StoreAddNode(st, addDelta(StoreGetNode(st, ancID), delta))

\* Where a mutating call goes on when todo ancestors are left to update.
afterUpdates(op, todo) ==
    IF todo # {} THEN "update"
    ELSE CASE op = "AddNode" -> "unlock"
           [] op = "DeleteNode" -> "remove"
           [] OTHER -> "merge"

\* A goroutine calls the engine.
Call(t, op) ==
    /\ th[t].pc = "idle"
    /\ th' = [th EXCEPT ![t] = [IdleThread EXCEPT !.pc = "call", !.op = op]]
    /\ UNCHANGED <<cfg, d, eng, run, store, pc, last, pre, base, negs, mu>>

\* d.mu.Lock(): waits until no writer and no reader is inside.
Lock(t) ==
    /\ th[t].pc = "call" /\ th[t].op \in WriterOps
    /\ mu.writer = "none" /\ mu.readers = {}
    /\ mu' = [mu EXCEPT !.writer = t]
    /\ th' = [th EXCEPT ![t].pc = "locked"]
    /\ UNCHANGED <<cfg, d, eng, run, store, pc, last, pre, base, negs>>

\* A faulty RLock: the reader does not wait for the writer to leave.
RLock_NoWait(t) ==
    /\ th[t].pc = "call" /\ th[t].op \in ReaderOps
    /\ mu' = [mu EXCEPT !.readers = @ \cup {t}]
    /\ th' = [th EXCEPT ![t].pc = "rlocked"]
    /\ UNCHANGED <<cfg, d, eng, run, store, pc, last, pre, base, negs>>

\* d.mu.RLock(): waits until no writer is inside.  (A reader may pass a
\* writer that has called Lock but has not yet announced itself.)
RLock(t) ==
    /\ th[t].pc = "call" /\ th[t].op \in ReaderOps
    /\ mu.writer = "none"
    /\ mu' = [mu EXCEPT !.readers = @ \cup {t}]
    /\ th' = [th EXCEPT ![t].pc = "rlocked"]
    /\ UNCHANGED <<cfg, d, eng, run, store, pc, last, pre, base, negs>>

\* A faulty AddNode: with parents unset it selects the tips through the
\* public SelectTipsMCMC, which takes the read lock of the mutex that the
\* call already holds.
LockedAddNode_Relock(t, node) ==
    /\ th[t].pc = "locked" /\ th[t].op = "AddNode"
    /\ IF node.NilParents /\ ~StoreHas(store, node.ID)
       THEN /\ th' = [th EXCEPT ![t].pc = "call", ![t].op = "SelectTipsMCMC"]
            /\ UNCHANGED store
       ELSE LET a == IF StoreHas(store, node.ID)
                     THEN [err |-> "AlreadyExists", node |-> node]
                     ELSE admit(store, d, node)
                st == StoreAddNode(store, a.node)
                todo == ancestorsOf(st, a.node)
            IN  IF a.err # "OK"
                THEN /\ th' = [th EXCEPT ![t].pc = "unlock"]
                     /\ UNCHANGED store
                ELSE /\ store' = st
                     /\ th' = [th EXCEPT
                                  ![t].pc = afterUpdates("AddNode", todo),
                                  ![t].id = node.ID,
                                  ![t].todo = todo,
                                  ![t].delta = a.node.Weight]
    /\ UNCHANGED <<cfg, d, eng, run, pc, last, pre, base, negs, mu>>

\* AddNode inside the lock, up to the write of the vertex and the collection
\* of its ancestors.
LockedAddNode(t, node) ==
    /\ th[t].pc = "locked" /\ th[t].op = "AddNode"
    /\ \E p \in (IF StoreHas(store, node.ID)
                 THEN {[err |-> "AlreadyExists", node |-> node]}
                 ELSE selectParents(store, d, node)) :
          LET a == IF p.err # "OK" THEN p ELSE admit(store, d, p.node)
              st == StoreAddNode(store, a.node)
              todo == ancestorsOf(st, a.node)
          IN  IF a.err # "OK"
              THEN /\ th' = [th EXCEPT ![t].pc = "unlock"]
                   /\ UNCHANGED store
              ELSE /\ store' = st
                   /\ th' = [th EXCEPT ![t].pc = afterUpdates("AddNode", todo),
                                        ![t].id = node.ID,
                                        ![t].todo = todo,
                                        ![t].delta = a.node.Weight]
    /\ UNCHANGED <<cfg, d, eng, run, pc, last, pre, base, negs, mu>>

\* DeleteNode inside the lock, up to the collection of the ancestors.
LockedDeleteNode(t, id) ==
    /\ th[t].pc = "locked" /\ th[t].op = "DeleteNode"
    /\ IF ~StoreHas(store, id) \/ (\E n \in Iterator(store) : id \in Range(n.Parents))
       THEN th' = [th EXCEPT ![t].pc = "unlock"]
       ELSE LET node == StoreGetNode(store, id)
                todo == ancestorsOf(store, node)
            IN  th' = [th EXCEPT ![t].pc = afterUpdates("DeleteNode", todo),
                                 ![t].id = id,
                                 ![t].todo = todo,
                                 ![t].delta = 0 - node.Weight]
    /\ UNCHANGED <<cfg, d, eng, run, store, pc, last, pre, base, negs, mu>>

\* SyncWithPeer inside the lock: the peer's answer has been decoded.
LockedSyncFetch(t, nodes) ==
    /\ th[t].pc = "locked" /\ th[t].op = "SyncWithPeer"
    /\ th' = [th EXCEPT ![t].pc = "merge", ![t].nodes = nodes]
    /\ UNCHANGED <<cfg, d, eng, run, store, pc, last, pre, base, negs, mu>>

\* SyncWithPeer inside the lock: the fetch or the decoding failed.
LockedSyncFails(t) ==
    /\ th[t].pc = "locked" /\ th[t].op = "SyncWithPeer"
    /\ th' = [th EXCEPT ![t].pc = "unlock"]
    /\ UNCHANGED <<cfg, d, eng, run, store, pc, last, pre, base, negs, mu>>

\* SyncWithPeer inside the lock: one round of the loop over the vertices, up
\* to the write of the vertex and the collection of its ancestors.
LockedSyncMerge(t) ==
    /\ th[t].pc = "merge"
    /\ IF th[t].nodes = << >>
       THEN /\ th' = [th EXCEPT ![t].pc = "unlock"]
            /\ UNCHANGED store
       ELSE LET node == Head(th[t].nodes)
                a == admit(store, d, node)
                st == StoreAddNode(store, a.node)
                todo == ancestorsOf(st, a.node)
            IN  IF StoreHas(store, node.ID) \/ a.err # "OK"
                THEN /\ th' = [th EXCEPT ![t].nodes = Tail(@)]
                     /\ UNCHANGED store
                ELSE /\ store' = st
                     /\ th' = [th EXCEPT
                                  ![t].pc = afterUpdates("SyncWithPeer", todo),
                                  ![t].nodes = Tail(@),
                                  ![t].id = node.ID,
                                  ![t].todo = todo,
                                  ![t].delta = a.node.Weight]
    /\ UNCHANGED <<cfg, d, eng, run, pc, last, pre, base, negs, mu>>

\* updateCumulativeWeights inside the lock: one ancestor is read, changed and
\* written back; the map is ranged over in any order.
UpdateAncestor(t) ==
    /\ th[t].pc = "update"
    /\ \E ancID \in th[t].todo :
          LET todo == th[t].todo \ {ancID}
          IN  /\ store' = updateAncestor(store, ancID, th[t].delta)
              /\ th' = [th EXCEPT ![t].pc = afterUpdates(th[t].op, todo),
                                   ![t].todo = todo]
    /\ UNCHANGED <<cfg, d, eng, run, pc, last, pre, base, negs, mu>>

\* DeleteNode inside the lock: the record is deleted.
RemoveNode(t) ==
    /\ th[t].pc = "remove"
    /\ store' = StoreDeleteNode(store, th[t].id)
    /\ th' = [th EXCEPT ![t].pc = "unlock"]
    /\ UNCHANGED <<cfg, d, eng, run, pc, last, pre, base, negs, mu>>

\* The deferred d.mu.Unlock().
Unlock(t) ==
    /\ th[t].pc = "unlock"
    /\ mu' = [mu EXCEPT !.writer = "none"]
    /\ th' = [th EXCEPT ![t] = IdleThread]
    /\ pre' = store
    /\ UNCHANGED <<cfg, d, eng, run, store, pc, last, base, negs>>

\* A reading call inside the lock reads the store; it does so twice (a
\* lookup and a scan, or two steps of an iterator).
Read(t) ==
    /\ th[t].pc = "rlocked"
    /\ th' = [th EXCEPT ![t].obs = Append(@, store),
                         ![t].pc = IF Len(th[t].obs) = 0 THEN "rlocked"
                                                        ELSE "runlock"]
    /\ UNCHANGED <<cfg, d, eng, run, store, pc, last, pre, base, negs, mu>>

\* The deferred d.mu.RUnlock().
RUnlock(t) ==
    /\ th[t].pc = "runlock"
    /\ mu' = [mu EXCEPT !.readers = @ \ {t}]
    /\ th' = [th EXCEPT ![t] = IdleThread]
    /\ UNCHANGED <<cfg, d, eng, run, store, pc, last, pre, base, negs>>

NextLock ==
    \E t \in Threads :
        \/ \E op \in WriterOps \cup ReaderOps : Call(t, op)
        \/ Lock(t)
        \/ RLock(t)
        \/ \E node \in LockAddInputs : LockedAddNode(t, node)
        \/ \E id \in IDs : LockedDeleteNode(t, id)
        \/ \E nodes \in SeqsUpTo(LockPeerNodes, MaxPeerNodes) : LockedSyncFetch(t, nodes)
        \/ LockedSyncFails(t)
        \/ LockedSyncMerge(t)
        \/ UpdateAncestor(t)
        \/ RemoveNode(t)
        \/ Unlock(t)
        \/ Read(t)
        \/ RUnlock(t)

SpecLock == Init /\ [][NextLock]_vars

----------------------------------------------------------------------------
(* The same goroutines with few inputs, and with the progress the runtime  *)
(* gives them.                                                             *)

\* The calls made: the three mutating ones and a reading one.
LiveOps == WriterOps \cup {"SelectTipsMCMC"}

\* The vertices added: two without parents, one with a parent.
LiveAddInputs ==
    { Node("n1", "x", TRUE, << >>, 0, 0),
      Node("n2", "x", TRUE, << >>, 0, 0),
      Node("n2", "x", FALSE, <<"n1">>, 0, 0) }

\* The lists a peer answers with.
LivePeerLists ==
    { << >>,
      << Node("n1", "x", TRUE, << >>, 0, 3),
         Node("n2", "x", FALSE, <<"n1">>, 2, 7) >> }

\* The steps of goroutine t once it is inside its critical section.
Inside(t) ==
    \/ \E node \in LiveAddInputs : LockedAddNode(t, node)
    \/ \E id \in {"n1", "n2"} : LockedDeleteNode(t, id)
    \/ \E nodes \in LivePeerLists : LockedSyncFetch(t, nodes)
    \/ LockedSyncFails(t)
    \/ LockedSyncMerge(t)
    \/ UpdateAncestor(t)
    \/ RemoveNode(t)
    \/ Unlock(t)
    \/ Read(t)
    \/ RUnlock(t)

NextLive ==
    \E t \in Threads :
        \/ \E op \in LiveOps : Call(t, op)
        \/ Lock(t)
        \/ RLock(t)
        \/ Inside(t)

\* A goroutine inside the engine keeps running (the peer fetch has a
\* timeout), and the RWMutex starves no caller: a goroutine that can take
\* the lock again and again does take it.
SpecLive ==
    /\ Init /\ [][NextLive]_vars
    /\ \A t \in Threads :
          WF_vars(Inside(t)) /\ SF_vars(Lock(t)) /\ SF_vars(RLock(t))

----------------------------------------------------------------------------
(* GET /nodes/{id} beside concurrent AddNode and DeleteNode calls:          *)
(* Handler.GetNode calls DAG.GetNode and then DAG.IsTip, each of which      *)
(* takes and releases the read lock.                                       *)

\* The request arrives; the handler is about to call DAG.GetNode.
HandlerGetNodeCall(t, id) ==
    /\ th[t].pc = "idle"
    /\ th' = [th EXCEPT ![t] = [IdleThread EXCEPT !.pc = "get_call",
                                                  !.op = "HandlerGetNode",
                                                  !.id = id]]
    /\ UNCHANGED <<cfg, d, eng, run, store, pc, last, pre, base, negs, mu>>

\* d.mu.RLock() of DAG.GetNode or of DAG.IsTip.
HandlerRLock(t) ==
    /\ th[t].pc \in {"get_call", "tip_call"}
    /\ mu.writer = "none"
    /\ mu' = [mu EXCEPT !.readers = @ \cup {t}]
    /\ th' = [th EXCEPT ![t].pc = IF th[t].pc = "get_call" THEN "get_in"
                                                           ELSE "tip_in"]
    /\ UNCHANGED <<cfg, d, eng, run, store, pc, last, pre, base, negs>>

\* DAG.GetNode inside the read lock: the vertex is read.
HandlerReadNode(t) ==
    /\ th[t].pc = "get_in"
    /\ th' = [th EXCEPT ![t].pc = "get_out",
                         ![t].got = getNodeInternal(store, th[t].id),
                         ![t].snap = ~(\E k \in DOMAIN store :
                                          th[t].id \in Range(StoreGetNode(store, k).Parents))]
    /\ UNCHANGED <<cfg, d, eng, run, store, pc, last, pre, base, negs, mu>>

\* DAG.IsTip inside the read lock: the records are scanned.
HandlerReadTip(t) ==
    /\ th[t].pc = "tip_in"
    /\ th' = [th EXCEPT ![t].pc = "tip_out",
                         ![t].tip = isTipInternal(store, th[t].id)]
    /\ UNCHANGED <<cfg, d, eng, run, store, pc, last, pre, base, negs, mu>>

\* The deferred d.mu.RUnlock() of DAG.GetNode or of DAG.IsTip; a nil vertex
\* is answered with 404 without a call of IsTip.
HandlerRUnlock(t) ==
    /\ th[t].pc \in {"get_out", "tip_out"}
    /\ mu' = [mu EXCEPT !.readers = @ \ {t}]
    /\ th' = [th EXCEPT ![t].pc = IF th[t].pc = "get_out" /\ th[t].got # NoNode
                                  THEN "tip_call" ELSE "respond"]
    /\ UNCHANGED <<cfg, d, eng, run, store, pc, last, pre, base, negs>>

\* The response has been written.
HandlerRespond(t) ==
    /\ th[t].pc = "respond"
    /\ th' = [th EXCEPT ![t] = IdleThread]
    /\ UNCHANGED <<cfg, d, eng, run, store, pc, last, pre, base, negs, mu>>

\* One goroutine serves GET requests, the other one makes the mutating calls.
NextGet ==
    \/ \E id \in IDs : HandlerGetNodeCall("t1", id)
    \/ \E op \in {"AddNode", "DeleteNode"} : Call("t2", op)
    \/ \E t \in Threads :
        \/ HandlerRLock(t)
        \/ HandlerReadNode(t)
        \/ HandlerReadTip(t)
        \/ HandlerRUnlock(t)
        \/ HandlerRespond(t)
        \/ Lock(t)
        \/ \E node \in LockAddInputs : LockedAddNode(t, node)
        \/ \E id \in IDs : LockedDeleteNode(t, id)
        \/ UpdateAncestor(t)
        \/ RemoveNode(t)
        \/ Unlock(t)

SpecGet == Init /\ [][NextGet]_vars

----------------------------------------------------------------------------
(* The engine over a store whose reads and writes can fail.  One goroutine *)
(* makes the mutating calls; a failure ends the propagation where it is,   *)
(* with the writes made so far left in the store.  last records the call   *)
(* that failed.                                                            *)

\* updateCumulativeWeights returns an error: a getNodeInternal of the
\* traversal or of the loop over the ancestors, or the write of an
\* ancestor, has failed.  AddNode and DeleteNode return the error;
\* SyncWithPeer logs it and goes on with the next vertex.
FailUpdate(t) ==
    /\ th[t].pc = "update"
    /\ th' = [th EXCEPT ![t].pc = IF th[t].op = "SyncWithPeer" THEN "merge"
                                                             ELSE "unlock",
                         ![t].todo = {}]
    /\ last' = [NoCall EXCEPT !.op = th[t].op, !.id = th[t].id,
                              !.err = "StoreFailure"]
    /\ UNCHANGED <<cfg, d, eng, run, store, pc, pre, base, negs, mu>>

\* DeleteNode: d.store.DeleteNode fails after the propagation; the record
\* stays and the error is returned.
FailRemove(t) ==
    /\ th[t].pc = "remove"
    /\ th' = [th EXCEPT ![t].pc = "unlock"]
    /\ last' = [NoCall EXCEPT !.op = th[t].op, !.id = th[t].id,
                              !.err = "StoreFailure"]
    /\ UNCHANGED <<cfg, d, eng, run, store, pc, pre, base, negs, mu>>

NextFail ==
    \/ \E op \in WriterOps : Call("t1", op)
    \/ Lock("t1")
    \/ \E node \in LockAddInputs : LockedAddNode("t1", node)
    \/ \E id \in IDs : LockedDeleteNode("t1", id)
    \/ \E nodes \in SeqsUpTo(LockPeerNodes, MaxPeerNodes) :
          LockedSyncFetch("t1", nodes)
    \/ LockedSyncFails("t1")
    \/ LockedSyncMerge("t1")
    \/ UpdateAncestor("t1")
    \/ FailUpdate("t1")
    \/ RemoveNode("t1")
    \/ FailRemove("t1")
    \/ Unlock("t1")

SpecFail == Init /\ [][NextFail]_vars

----------------------------------------------------------------------------
(* Tip selection and the ancestor traversal, one round of their loops at a *)
(* time, on stores of any shape: with cycles, self-loops and parents that  *)
(* are not stored.                                                         *)

\* The store that holds the vertices of a sequence.
RECURSIVE StoreOf(_)
StoreOf(nodes) ==
    IF nodes = << >> THEN EmptyStore
    ELSE StoreAddNode(StoreOf(Tail(nodes)), Head(nodes))

\* A store of n vertices, each the only parent of the one before it and the
\* first the parent of the last: a cycle with no tip.
RECURSIVE Ring(_, _)
Ring(i, n) ==
    IF i = 0 THEN EmptyStore
    ELSE StoreAddNode(Ring(i - 1, n),
                      Node(ToString(i), "x", FALSE, <<ToString((i % n) + 1)>>, 1, 1))

V(id, parents) == Node(id, "x", FALSE, parents, 1, 1)

\* The stores the loops are run on.
TermStores ==
    { EmptyStore,
      StoreOf(<<V("n1", << >>)>>),
      StoreOf(<<V("n1", << >>), V("n2", <<"n1">>), V("n3", <<"n2">>)>>),
      StoreOf(<<V("n1", << >>), V("n2", <<"n1">>), V("n3", <<"n1", "n2">>)>>),
      StoreOf(<<V("n1", << >>), V("n2", <<"n1", "n1">>), V("n3", <<"n1">>)>>),
      StoreOf(<<V("n1", <<"n1">>)>>),
      StoreOf(<<V("n1", <<"n2">>), V("n2", <<"n1">>)>>),
      StoreOf(<<V("n1", <<"n3">>), V("n2", <<"n1">>), V("n3", <<"n2">>)>>),
      StoreOf(<<V("n1", <<"n2">>), V("n2", <<"n1">>), V("n3", <<"n1">>)>>),
      StoreOf(<<V("n1", <<"n4">>), V("n2", <<"n1", "n4">>)>>),
      Ring(MaxRing, MaxRing) }

\* The IDs of the vertices of those stores.
TermIDs == IDs \cup {ToString(i) : i \in 1..MaxRing}

InitTerm ==
    /\ cfg \in [maxParents : CfgMaxParents, defaultWeight : CfgDefaultWeight]
    /\ d = New(cfg.maxParents, cfg.defaultWeight)
    /\ store \in TermStores
    /\ pc = "idle"
    /\ last = NoCall
    /\ pre = EmptyStore
    /\ base = EmptyStore
    /\ negs = 0
    /\ mu = Unlocked
    /\ th = [t \in Threads |-> IdleThread]
    /\ run = NoRun
    /\ eng = [e \in Engines |-> IdleEngine]

\* selectTipsMCMCInternal up to its attempts loop.
StartSelect(maxTipsArg) ==
    /\ run.phase = "idle"
    /\ LET maxTips == IF maxTipsArg <= 0 THEN d.maxParents ELSE maxTipsArg
           nodeCount == Cardinality(DOMAIN store)
       IN  run' = IF nodeCount = 0
                  THEN [NoRun EXCEPT !.phase = "done", !.op = "SelectTipsMCMC",
                                     !.arg = maxTipsArg, !.result = "EmptyDAG"]
                  ELSE [NoRun EXCEPT !.phase = "attempt", !.op = "SelectTipsMCMC",
                                     !.arg = maxTipsArg, !.maxTips = maxTips,
                                     !.maxAttempts = 10 * maxTips,
                                     !.maxWalkSteps = max(10, nodeCount \div 2)]
    /\ UNCHANGED <<cfg, d, eng, store, pc, last, pre, base, negs, mu, th>>

\* The attempts loop is entered: getRandomNode draws the start of a walk.
StartWalk ==
    /\ run.phase = "attempt"
    /\ Cardinality(run.tips) < run.maxTips /\ run.maxAttempts > 0
    /\ \E startNode \in getRandomNode(store) :
          run' = [run EXCEPT !.phase = "walk", !.current = startNode,
                             !.steps = 0, !.iters = 0, !.walks = @ + 1]
    /\ UNCHANGED <<cfg, d, eng, store, pc, last, pre, base, negs, mu, th>>

\* A faulty round of the walk's loop: steps is not incremented.
WalkStep_NoCount ==
    /\ run.phase = "walk"
    /\ run.steps < run.maxWalkSteps
    /\ LET children == getChildren(store, run.current)
       IN  IF isTipInternal(store, run.current) \/ children = {}
           THEN run' = [run EXCEPT !.phase = "attempt",
                                   !.tips = @ \cup {run.current},
                                   !.iters = @ + 1,
                                   !.maxAttempts = @ - 1]
           ELSE \E next \in weightedRandomChoice(children) :
                   run' = [run EXCEPT !.current = next, !.iters = @ + 1]
    /\ UNCHANGED <<cfg, d, eng, store, pc, last, pre, base, negs, mu, th>>

\* One round of the walk's loop: a tip ends the walk, else the walk moves to
\* a child.
WalkStep ==
    /\ run.phase = "walk"
    /\ run.steps < run.maxWalkSteps
    /\ LET children == getChildren(store, run.current)
       IN  IF isTipInternal(store, run.current) \/ children = {}
           THEN run' = [run EXCEPT !.phase = "attempt",
                                   !.tips = @ \cup {run.current},
                                   !.iters = @ + 1,
                                   !.maxAttempts = @ - 1]
           ELSE \E next \in weightedRandomChoice(children) :
                   run' = [run EXCEPT !.current = next, !.steps = @ + 1,
                                      !.iters = @ + 1]
    /\ UNCHANGED <<cfg, d, eng, store, pc, last, pre, base, negs, mu, th>>

\* The walk's loop ends because steps has reached maxWalkSteps.
WalkExhausted ==
    /\ run.phase = "walk"
    /\ ~(run.steps < run.maxWalkSteps)
    /\ run' = [run EXCEPT !.phase = "attempt", !.maxAttempts = @ - 1]
    /\ UNCHANGED <<cfg, d, eng, store, pc, last, pre, base, negs, mu, th>>

\* The attempts loop has ended: "no tips available", or the tips.
FinishSelect ==
    /\ run.phase = "attempt"
    /\ ~(Cardinality(run.tips) < run.maxTips /\ run.maxAttempts > 0)
    /\ run' = [run EXCEPT !.phase = "done",
                          !.result = IF run.tips = {} THEN "NoTips" ELSE "OK"]
    /\ UNCHANGED <<cfg, d, eng, store, pc, last, pre, base, negs, mu, th>>

\* updateCumulativeWeights for a stored vertex, up to the breadth-first loop.
StartTraversal(id) ==
    /\ run.phase = "idle"
    /\ StoreHas(store, id)
    /\ LET node == StoreGetNode(store, id)
           seed == enqueueUnseen(node.Parents, {}, << >>)
       IN  run' = IF Len(node.Parents) = 0
                  THEN [NoRun EXCEPT !.phase = "done", !.op = "traverse",
                                     !.current = id, !.result = "OK"]
                  ELSE [NoRun EXCEPT !.phase = "traverse", !.op = "traverse",
                                     !.current = id,
                                     !.ancestors = seed.ancestors,
                                     !.queue = seed.queue,
                                     !.enqueued = seed.queue]
    /\ UNCHANGED <<cfg, d, eng, store, pc, last, pre, base, negs, mu, th>>

\* One round of the breadth-first loop: the head of the queue is popped and
\* looked up; when it is stored, its parents not yet in ancestors are
\* appended.
TraverseStep ==
    /\ run.phase = "traverse"
    /\ run.queue # << >>
    /\ LET current == Head(run.queue)
           rest == Tail(run.queue)
           e == IF ~StoreHas(store, current)
                THEN [ancestors |-> run.ancestors, queue |-> rest]
                ELSE enqueueUnseen(StoreGetNode(store, current).Parents,
                                   run.ancestors, rest)
       IN  run' = [run EXCEPT !.ancestors = e.ancestors,
                              !.queue = e.queue,
                              !.enqueued = @ \o SubSeq(e.queue, Len(rest) + 1,
                                                       Len(e.queue))]
    /\ UNCHANGED <<cfg, d, eng, store, pc, last, pre, base, negs, mu, th>>

\* The queue is empty: the breadth-first loop ends with the ancestors map.
FinishTraversal ==
    /\ run.phase = "traverse"
    /\ run.queue = << >>
    /\ run' = [run EXCEPT !.phase = "done", !.result = "OK"]
    /\ UNCHANGED <<cfg, d, eng, store, pc, last, pre, base, negs, mu, th>>

\* The call returns.
ReturnTerm ==
    /\ run.phase = "done"
    /\ run' = NoRun
    /\ UNCHANGED <<cfg, d, eng, store, pc, last, pre, base, negs, mu, th>>

\* The rounds of a call that has started.
Running ==
    \/ StartWalk
    \/ WalkStep
    \/ WalkExhausted
    \/ FinishSelect
    \/ TraverseStep
    \/ FinishTraversal
    \/ ReturnTerm

NextTerm ==
    \/ \E maxTipsArg \in MaxTipsValues : StartSelect(maxTipsArg)
    \/ \E id \in TermIDs : StartTraversal(id)
    \/ Running

\* A call that has started is not suspended for ever.
SpecTerm == InitTerm /\ [][NextTerm]_vars /\ WF_vars(Running)

----------------------------------------------------------------------------
(* Two programs that sync with each other.  main starts a sync goroutine   *)
(* per peer; SyncWithPeer takes the exclusive lock, sends GET /nodes and   *)
(* holds the lock until it returns.  The other program's router answers    *)
(* the request.                                                            *)

PeerOf(e) == IF e = "A" THEN "B" ELSE "A"

\* The replies of the server that is not this program.
ExternalReplies ==
    { [status |-> 500, decodes |-> FALSE, nodes |-> << >>],
      [status |-> 200, decodes |-> FALSE, nodes |-> << >>] }
    \cup {[status |-> 200, decodes |-> TRUE, nodes |-> nodes] :
              nodes \in LivePeerLists}

\* The ticker fires: main starts the goroutine that calls SyncWithPeer(p).
SyncTick(e, p) ==
    /\ eng[e].sy[p].pc = "idle"
    /\ eng' = [eng EXCEPT ![e].sy[p] = [IdleSync EXCEPT !.pc = "call"]]
    /\ UNCHANGED <<cfg, d, store, pc, last, pre, base, negs, mu, th, run>>

\* d.mu.Lock() of SyncWithPeer.
SyncLock(e, p) ==
    /\ eng[e].sy[p].pc = "call"
    /\ eng[e].writer = "none"
    /\ eng' = [eng EXCEPT ![e].writer = p,
                          ![e].sy[p].pc = "locked",
                          ![e].sy[p].pre = eng[e].store]
    /\ UNCHANGED <<cfg, d, store, pc, last, pre, base, negs, mu, th, run>>

\* client.Get(peerAddr + "/nodes") is sent.
SyncGet(e, p) ==
    /\ eng[e].sy[p].pc = "locked"
    /\ eng' = [eng EXCEPT ![e].sy[p].pc = "fetch", ![e].sy[p].req = "sent"]
    /\ UNCHANGED <<cfg, d, store, pc, last, pre, base, negs, mu, th, run>>

\* The router of program e answers the GET /nodes of the other program:
\* RegisterRoutes gives /nodes to POST only, so the router replies 405
\* itself and the engine is not called.
RouterReply(e) ==
    /\ eng[PeerOf(e)].sy["peer"].pc = "fetch"
    /\ eng[PeerOf(e)].sy["peer"].req = "sent"
    /\ eng' = [eng EXCEPT ![PeerOf(e)].sy["peer"].req = "replied",
                          ![PeerOf(e)].sy["peer"].status = 405,
                          ![PeerOf(e)].sy["peer"].peerLocked =
                              (eng[e].writer # "none")]
    /\ UNCHANGED <<cfg, d, store, pc, last, pre, base, negs, mu, th, run>>

\* The server that is not this program answers.
ExternalReply(e, reply) ==
    /\ eng[e].sy["X"].pc = "fetch"
    /\ eng[e].sy["X"].req = "sent"
    /\ eng' = [eng EXCEPT ![e].sy["X"].req = "replied",
                          ![e].sy["X"].status = reply.status,
                          ![e].sy["X"].decodes = reply.decodes,
                          ![e].sy["X"].nodes = reply.nodes]
    /\ UNCHANGED <<cfg, d, store, pc, last, pre, base, negs, mu, th, run>>

\* client.Get returns an error: the connection failed, or no reply came
\* within the client's Timeout.
SyncFetchFails(e, p) ==
    /\ eng[e].sy[p].pc = "fetch"
    /\ eng[e].sy[p].req = "sent"
    /\ eng' = [eng EXCEPT ![e].sy[p].pc = "unlock",
                          ![e].sy[p].req = "none",
                          ![e].sy[p].err = "FetchFailed"]
    /\ UNCHANGED <<cfg, d, store, pc, last, pre, base, negs, mu, th, run>>

\* resp.StatusCode != http.StatusOK.
SyncNon200(e, p) ==
    /\ eng[e].sy[p].pc = "fetch"
    /\ eng[e].sy[p].req = "replied"
    /\ eng[e].sy[p].status # 200
    /\ eng' = [eng EXCEPT ![e].sy[p].pc = "unlock",
                          ![e].sy[p].err = "PeerStatus"]
    /\ UNCHANGED <<cfg, d, store, pc, last, pre, base, negs, mu, th, run>>

\* The body does not decode into a vertex list.
SyncDecodeFails(e, p) ==
    /\ eng[e].sy[p].pc = "fetch"
    /\ eng[e].sy[p].req = "replied"
    /\ eng[e].sy[p].status = 200 /\ ~eng[e].sy[p].decodes
    /\ eng' = [eng EXCEPT ![e].sy[p].pc = "unlock",
                          ![e].sy[p].err = "DecodeFailed"]
    /\ UNCHANGED <<cfg, d, store, pc, last, pre, base, negs, mu, th, run>>

\* The loop over the decoded list.
SyncMergeAll(e, p) ==
    /\ eng[e].sy[p].pc = "fetch"
    /\ eng[e].sy[p].req = "replied"
    /\ eng[e].sy[p].status = 200 /\ eng[e].sy[p].decodes
    /\ eng' = [eng EXCEPT ![e].store =
                              syncLoop(eng[e].store, d, eng[e].sy[p].nodes,
                                       << >>).store,
                          ![e].sy[p].pc = "unlock",
                          ![e].sy[p].err = "OK"]
    /\ UNCHANGED <<cfg, d, store, pc, last, pre, base, negs, mu, th, run>>

\* The deferred d.mu.Unlock(); the goroutine ends.
SyncUnlock(e, p) ==
    /\ eng[e].sy[p].pc = "unlock"
    /\ eng' = [eng EXCEPT ![e].writer = "none", ![e].sy[p] = IdleSync]
    /\ UNCHANGED <<cfg, d, store, pc, last, pre, base, negs, mu, th, run>>

\* The steps of SyncWithPeer(p) in program e once it holds the lock.
SyncInside(e, p) ==
    \/ SyncGet(e, p)
    \/ SyncFetchFails(e, p)
    \/ SyncNon200(e, p)
    \/ SyncDecodeFails(e, p)
    \/ SyncMergeAll(e, p)
    \/ SyncUnlock(e, p)

NextSync ==
    \/ \E e \in Engines, p \in Targets : SyncTick(e, p)
    \/ \E e \in Engines, p \in Targets : SyncLock(e, p)
    \/ \E e \in Engines : RouterReply(e)
    \/ \E e \in Engines, reply \in ExternalReplies : ExternalReply(e, reply)
    \/ \E e \in Engines, p \in Targets : SyncInside(e, p)

\* A goroutine that holds the lock keeps running, and the client's Timeout
\* ends a fetch that gets no reply; the mutex starves no caller.
SpecSync ==
    /\ Init /\ [][NextSync]_vars
    /\ \A e \in Engines :
          /\ WF_vars(\E p \in Targets : SyncInside(e, p))
          /\ \A p \in Targets : SF_vars(SyncLock(e, p))

----------------------------------------------------------------------------
(* Vocabulary of the properties.                                           *)

\* The IDs a stored vertex lists as parents.
ParentSet(st, id) == Range(StoreGetNode(st, id).Parents)

\* Everything reachable from the IDs of S by parents edges, S included.
RECURSIVE UpClosure(_, _)
UpClosure(st, S) ==
    LET next == S \cup UNION {ParentSet(st, k) : k \in S \cap DOMAIN st}
    IN  IF next = S THEN S ELSE UpClosure(st, next)

\* The vertices reached from id by one or more parents edges.
StrictAncestors(st, id) == UpClosure(st, ParentSet(st, id))

\* The stored vertices that reach id by one or more parents edges.
StrictDescendants(st, id) == {k \in DOMAIN st : id \in StrictAncestors(st, k)}

\* Some stored vertex other than id lists id as a parent.
HasChild(st, id) == \E k \in (DOMAIN st) \ {id} : id \in ParentSet(st, k)

RECURSIVE SumWeights(_, _)
SumWeights(st, S) ==
    IF S = {} THEN 0
    ELSE LET k == CHOOSE x \in S : TRUE
         IN  StoreGetNode(st, k).Weight + SumWeights(st, S \ {k})

Returned(op) == pc = "done" /\ last.op = op

----------------------------------------------------------------------------
(* The properties.                                                         *)

\* C1: referential integrity.  In every state, every ID in the parents of a
\* stored vertex is the key of a stored vertex.
C1_ReferentialIntegrity ==
    \A k \in DOMAIN store : ParentSet(store, k) \subseteq DOMAIN store

\* C1 happens: a DeleteNode has succeeded and a vertex with parents remains.
C1_Witness ==
    /\ Returned("DeleteNode") /\ last.err = "OK"
    /\ \E k \in DOMAIN store : ParentSet(store, k) # {}

\* C2: acyclicity.  No stored vertex reaches itself by one or more parents
\* edges.
C2_Acyclic ==
    \A k \in DOMAIN store : k \notin StrictAncestors(store, k)

\* C2 happens: an AddNode has stored a vertex that has a grandparent.
C2_Witness ==
    /\ Returned("AddNode") /\ last.err = "OK"
    /\ \E p \in ParentSet(store, last.id) :
          p \in DOMAIN store /\ ParentSet(store, p) # {}

\* C3: every stored vertex's cumulative weight is its own weight plus the
\* weights of its distinct strict descendants, each counted once.
C3_CumulativeIsSum ==
    \A k \in DOMAIN store :
        StoreGetNode(store, k).CumulativeWeight =
            StoreGetNode(store, k).Weight
            + SumWeights(store, StrictDescendants(store, k))

\* C4: in every state every stored vertex has cumulative_weight >= weight.
C4_CumulativeDominates ==
    \A k \in DOMAIN store :
        StoreGetNode(store, k).CumulativeWeight >= StoreGetNode(store, k).Weight

\* C4 happens: an AddNode of a negative weight has reached an ancestor whose
\* cumulative weight plus that weight is below the ancestor's own weight.
C4_Witness ==
    /\ Returned("AddNode") /\ last.err = "OK"
    /\ \E a \in StrictAncestors(store, last.id) :
          /\ a \in DOMAIN pre
          /\ StoreGetNode(pre, a).CumulativeWeight
                + StoreGetNode(store, last.id).Weight
             < StoreGetNode(pre, a).Weight

\* C5: DeleteNode of a stored vertex succeeds exactly when no other stored
\* vertex lists it as a parent; otherwise it fails with HasChildren and the
\* store is as before the call.
C5_DeleteBlockedByChildren ==
    (Returned("DeleteNode") /\ StoreHas(pre, last.id)) =>
        /\ (last.err = "OK") <=> ~HasChild(pre, last.id)
        /\ HasChild(pre, last.id) => (last.err = "HasChildren" /\ store = pre)

\* C5 happens: a DeleteNode of a vertex with a child has returned.
C5_Witness ==
    /\ Returned("DeleteNode") /\ StoreHas(pre, last.id)
    /\ HasChild(pre, last.id)

\* C6: AddNode of an ID that is stored fails with AlreadyExists, whatever
\* the rest of the vertex, and leaves the store as it was.
C6_DuplicateRejected ==
    (Returned("AddNode") /\ StoreHas(pre, last.id)) =>
        (last.err = "AlreadyExists" /\ store = pre)

\* C6 happens: the rejected duplicate differs from the stored vertex in its
\* parents and in its weight.
C6_Witness ==
    /\ Returned("AddNode") /\ StoreHas(pre, last.id)
    /\ last.node.Parents # StoreGetNode(pre, last.id).Parents
    /\ last.node.Weight # StoreGetNode(pre, last.id).Weight

\* C7 as stated: AddNode of a fresh ID fails with TooManyParents when the
\* supplied list is longer than maxParents, with CycleDetected when the ID
\* is among the supplied parents, and with ParentMissing when some listed
\* parent is not stored; and a call that fails so leaves the store as it
\* was.  (Where two of the conditions meet, the statement is read in the
\* order of the code's checks: the length first, and the ID itself, which is
\* never stored, as a cycle rather than as a missing parent.)
C7_Original ==
    (Returned("AddNode") /\ ~StoreHas(pre, last.id) /\ ~last.node.NilParents) =>
        LET ps == last.node.Parents
            fits == Len(ps) <= d.maxParents
        IN  /\ ~fits => last.err = "TooManyParents"
            /\ (fits /\ last.id \in Range(ps)) => last.err = "CycleDetected"
            /\ (fits /\ last.id \notin Range(ps)
                     /\ \E p \in Range(ps) : ~StoreHas(pre, p))
                  => last.err = "ParentMissing"
            /\ last.err \in {"CycleDetected", "ParentMissing", "TooManyParents"}
                  => store = pre

\* C7 amended: AddNode of a fresh ID with supplied parents fails with
\* TooManyParents when the list is longer than maxParents; otherwise the
\* first listed parent that is the ID itself or is not stored decides:
\* CycleDetected for the ID itself, ParentMissing for an absent parent.  A
\* call that fails with one of the three leaves the store as it was.
C7_ParentValidation ==
    (Returned("AddNode") /\ ~StoreHas(pre, last.id)) =>
        LET ps == last.node.Parents
            bad == {i \in DOMAIN ps : ps[i] = last.id \/ ~StoreHas(pre, ps[i])}
            first == CHOOSE i \in bad : \A j \in bad : i <= j
        IN  /\ (~last.node.NilParents /\ Len(ps) > d.maxParents)
                  => last.err = "TooManyParents"
            /\ (~last.node.NilParents /\ Len(ps) <= d.maxParents /\ bad # {})
                  => last.err = IF ps[first] = last.id THEN "CycleDetected"
                                                       ELSE "ParentMissing"
            /\ last.err \in {"CycleDetected", "ParentMissing", "TooManyParents"}
                  => store = pre

\* C7 happens: the ID is among the parents, after a parent that is not
\* stored, and the call has returned.
C7_Witness ==
    /\ Returned("AddNode") /\ ~StoreHas(pre, last.id)
    /\ Len(last.node.Parents) = 2
    /\ last.node.Parents[2] = last.id
    /\ last.node.Parents[1] # last.id /\ ~StoreHas(pre, last.node.Parents[1])
    /\ Len(last.node.Parents) <= d.maxParents

\* C8: in every state every stored vertex has at most maxParents parents,
\* maxParents being 2 when New was given a value <= 0.
C8_ParentBound ==
    /\ cfg.maxParents <= 0 => d.maxParents = 2
    /\ cfg.maxParents > 0 => d.maxParents = cfg.maxParents
    /\ \A k \in DOMAIN store : Len(StoreGetNode(store, k).Parents) <= d.maxParents

\* C8 happens: under the defaulted bound an AddNode without parents has
\* stored a vertex with two selected parents.
C8_Witness ==
    /\ cfg.maxParents <= 0
    /\ Returned("AddNode") /\ last.err = "OK" /\ last.node.NilParents
    /\ Len(StoreGetNode(store, last.id).Parents) = 2

\* C9: a DeleteNode that directly follows the successful AddNode of the same
\* vertex leaves the store as it was before that AddNode.
C9_Retraction ==
    (Returned("DeleteNode") /\ last.retracts /\ last.err = "OK") => store = base

\* C10 as stated: after a successful AddNode(v) the stored vertex equals v
\* in id, data, parents and weight, and its cumulative weight is its weight.
C10_Original ==
    (Returned("AddNode") /\ last.err = "OK") =>
        LET got == StoreGetNode(store, last.id)
        IN  /\ got.ID = last.node.ID
            /\ got.Data = last.node.Data
            /\ got.Parents = last.node.Parents
            /\ got.Weight = last.node.Weight
            /\ got.CumulativeWeight = got.Weight

\* C10 amended: after a successful AddNode(v), GetNode(v.id) returns v's id
\* and data; v's parents when v supplied them, and otherwise the selected
\* tips (one or two tips of the store before the call, or still no parents
\* when that store was empty); v's weight when it is not 0 and
\* defaultWeight when it is; and cumulative_weight equal to that weight.
C10_RoundTrip ==
    (Returned("AddNode") /\ last.err = "OK") =>
        LET got == StoreGetNode(store, last.id)
            v == last.node
        IN  /\ StoreHas(store, last.id)
            /\ got.ID = v.ID
            /\ got.Data = v.Data
            /\ ~v.NilParents =>
                  (got.Parents = v.Parents /\ ~got.NilParents)
            /\ (v.NilParents /\ DOMAIN pre = {}) =>
                  (got.NilParents /\ got.Parents = << >>)
            /\ (v.NilParents /\ DOMAIN pre # {}) =>
                  /\ Len(got.Parents) \in {1, 2}
                  /\ \A p \in Range(got.Parents) :
                        StoreHas(pre, p) /\ ~HasChild(pre, p)
            /\ got.Weight = IF v.Weight = 0 THEN d.defaultWeight ELSE v.Weight
            /\ got.CumulativeWeight = got.Weight

\* C10 happens: an AddNode with weight 0 and no parents has succeeded on a
\* store that was not empty.
C10_Witness ==
    /\ Returned("AddNode") /\ last.err = "OK"
    /\ last.node.Weight = 0 /\ last.node.NilParents /\ DOMAIN pre # {}

\* C11: whenever SelectTipsMCMC(maxTips) returns successfully, its result is
\* a non-empty list of pairwise distinct IDs, at most maxTips of them
\* (maxParents when maxTips <= 0), each of them stored and listed as a
\* parent by no stored vertex.
C11_TipSelectionDomain ==
    (Returned("SelectTipsMCMC") /\ last.err = "OK") =>
        LET tips == last.tips
            limit == IF last.arg <= 0 THEN d.maxParents ELSE last.arg
        IN  /\ Len(tips) >= 1
            /\ Len(tips) <= limit
            /\ \A i, j \in DOMAIN tips : i # j => tips[i] # tips[j]
            /\ \A i \in DOMAIN tips :
                  StoreHas(store, tips[i]) /\ ~HasChild(store, tips[i])

\* C11 happens: a selection has returned two tips of a store in which some
\* vertex is not a tip.
C11_Witness ==
    /\ Returned("SelectTipsMCMC") /\ last.err = "OK"
    /\ Len(last.tips) = 2
    /\ \E k \in DOMAIN store : HasChild(store, k)

\* C12: on a store without vertices SelectTipsMCMC fails with EmptyDAG and
\* returns no tips, and AddNode of a vertex with nil parents succeeds and
\* stores the vertex, as the only one, without parents.
C12_EmptyStore ==
    /\ (Returned("SelectTipsMCMC") /\ DOMAIN pre = {}) =>
          (last.err = "EmptyDAG" /\ last.tips = << >>)
    /\ (Returned("AddNode") /\ last.node.NilParents /\ DOMAIN pre = {}) =>
          /\ last.err = "OK"
          /\ DOMAIN store = {last.id}
          /\ StoreGetNode(store, last.id).Parents = << >>

\* C12 happens: an AddNode with nil parents has returned on an empty store.
C12_Witness ==
    Returned("AddNode") /\ last.node.NilParents /\ DOMAIN pre = {}

\* C13: AddNode of a fresh ID with an empty, non-nil parents list succeeds,
\* stores the vertex without parents and changes no other record, also on a
\* store that is not empty; a successful AddNode with a non-empty parents
\* list stores that list as it is; a successful AddNode with nil parents
\* on a store that is not empty stores a list that tip selection for two
\* tips can return on the store before the call.
C13_ThreeWaySelection ==
    (Returned("AddNode") /\ ~StoreHas(pre, last.id)) =>
        LET v == last.node
            got == StoreGetNode(store, last.id)
        IN  /\ (~v.NilParents /\ v.Parents = << >>) =>
                  /\ last.err = "OK"
                  /\ got.Parents = << >> /\ ~got.NilParents
                  /\ DOMAIN store = DOMAIN pre \cup {last.id}
                  /\ \A k \in DOMAIN pre : store[k] = pre[k]
            /\ (last.err = "OK" /\ ~v.NilParents /\ v.Parents # << >>) =>
                  got.Parents = v.Parents
            /\ (last.err = "OK" /\ v.NilParents /\ DOMAIN pre # {}) =>
                  \E sel \in selectTipsMCMCInternal(pre, d, 2) :
                      sel.err = "OK" /\ got.Parents = sel.tips

\* C13 happens: an AddNode with an empty, non-nil parents list has returned
\* on a store that holds a tip.
C13_Witness ==
    /\ Returned("AddNode") /\ ~StoreHas(pre, last.id)
    /\ ~last.node.NilParents /\ last.node.Parents = << >>
    /\ DOMAIN pre # {}

\* C14: a successful AddNode(v) stores defaultWeight as the weight when
\* v.weight is 0 and v.weight otherwise, and stores that weight as the
\* cumulative weight whatever cumulative weight v carried.  Every vertex that
\* SyncWithPeer merges is stored with the weight that rule gives for a listed
\* vertex of its ID, and, while no merged vertex descends from it, with that
\* weight as its cumulative weight whatever the peer reported.
C14_WeightNormalisation ==
    /\ (Returned("AddNode") /\ last.err = "OK") =>
          LET got == StoreGetNode(store, last.id)
          IN  /\ got.Weight = IF last.node.Weight = 0 THEN d.defaultWeight
                                                      ELSE last.node.Weight
              /\ got.CumulativeWeight = got.Weight
    /\ Returned("SyncWithPeer") =>
          \A id \in Range(last.merged) :
              LET got == StoreGetNode(store, id)
              IN  /\ \E i \in DOMAIN last.nodes :
                        /\ last.nodes[i].ID = id
                        /\ got.Parents = last.nodes[i].Parents
                        /\ got.Weight = IF last.nodes[i].Weight = 0
                                        THEN d.defaultWeight
                                        ELSE last.nodes[i].Weight
                  /\ ~HasChild(store, id) => got.CumulativeWeight = got.Weight

\* C14 happens: an AddNode of a vertex with weight 0 that carried a
\* cumulative weight of its own has succeeded.
C14_Witness ==
    /\ Returned("AddNode") /\ last.err = "OK"
    /\ last.node.Weight = 0
    /\ last.node.CumulativeWeight \notin {0, d.defaultWeight}

\* C15: IsTip(id) returns true exactly when no stored vertex lists id among
\* its parents, so it returns true, without an error, for an id that is not
\* stored; and it leaves the store as it was.
C15_IsTip ==
    Returned("IsTip") =>
        /\ last.err = "OK"
        /\ last.isTip <=> ~(\E k \in DOMAIN pre : last.id \in ParentSet(pre, k))
        /\ ~StoreHas(pre, last.id) => last.isTip
        /\ store = pre

\* C15 happens: IsTip has returned for an id that is not stored, on a store
\* in which some vertex has a child.
C15_Witness ==
    /\ Returned("IsTip") /\ ~StoreHas(pre, last.id)
    /\ \E k \in DOMAIN pre : HasChild(pre, k)

\* C16: DeleteNode of an id that is not stored fails with NotFound and
\* leaves the store as it was; a DeleteNode that succeeds removes the record
\* of id and no other record, and id is absent afterwards.
C16_DeleteNotFound ==
    Returned("DeleteNode") =>
        /\ ~StoreHas(pre, last.id) => (last.err = "NotFound" /\ store = pre)
        /\ last.err = "NotFound" => ~StoreHas(pre, last.id)
        /\ last.err = "OK" =>
              /\ StoreHas(pre, last.id)
              /\ DOMAIN store = (DOMAIN pre) \ {last.id}
              /\ getNodeInternal(store, last.id) = NoNode

\* C16 happens: a DeleteNode has removed one vertex of several.
C16_Witness ==
    /\ Returned("DeleteNode") /\ last.err = "OK"
    /\ Cardinality(DOMAIN store) >= 1

\* C17: SyncWithPeer leaves the store as AddNode for each listed vertex in
\* list order, the failing ones skipped, can leave it, and returns the IDs
\* of the vertices those AddNode calls store.
C17_SyncIsBatchAddNode ==
    (Returned("SyncWithPeer") /\ last.err = "OK") =>
        [store |-> store, merged |-> last.merged]
            \in batchAddNode(pre, d, last.nodes, << >>)

\* C18: POST /nodes answers 409 when AddNode fails with AlreadyExists, 400
\* when it fails with CycleDetected or ParentMissing, 500 for every other
\* failure of AddNode, and 201 exactly when AddNode succeeds.
C18_PostStatus ==
    (Returned("HandlerAddNode") /\ last.err # "InvalidPayload") =>
        last.status = CASE last.err = "OK" -> 201
                        [] last.err = "AlreadyExists" -> 409
                        [] last.err \in {"CycleDetected", "ParentMissing"} -> 400
                        [] OTHER -> 500

\* C19: DELETE /nodes/{id} answers 404 when DeleteNode fails with NotFound,
\* 409 when it fails with HasChildren, and 200 exactly when the vertex was
\* deleted.
C19_DeleteStatus ==
    Returned("HandlerDeleteNode") =>
        /\ last.err = "NotFound" => last.status = 404
        /\ last.err = "HasChildren" => last.status = 409
        /\ last.status = 200 <=> (last.err = "OK" /\ ~StoreHas(store, last.id)
                                                  /\ StoreHas(pre, last.id))

\* The goroutines inside the critical section of a mutating call, and of a
\* reading call.
WritersInside ==
    {t \in Threads : th[t].pc \in {"locked", "merge", "update", "remove", "unlock"}}

ReadersInside == {t \in Threads : th[t].pc \in {"rlocked", "runlock"}}

\* C20: under every interleaving of concurrent calls, at most one mutating
\* call is inside its critical section, no reading call is inside while a
\* mutating call is, and every store a reading call reads is the store as
\* the last mutating call left it, never a store between two writes of a
\* mutating call.
C20_LockDiscipline ==
    /\ Cardinality(WritersInside) <= 1
    /\ WritersInside # {} => ReadersInside = {}
    /\ \A t \in ReadersInside :
          \A i \in DOMAIN th[t].obs : th[t].obs[i] = pre

\* C20 happens: a mutating call has stored its vertex and has still
\* ancestors to update, while a reading call waits for the lock.
C20_Witness ==
    \E w, r \in Threads :
        /\ th[w].pc = "update" /\ th[w].todo # {} /\ store # pre
        /\ th[r].pc = "call" /\ th[r].op \in ReaderOps

\* C24: a successful AddNode or DeleteNode of a vertex leaves every other
\* stored vertex its id, data, parents and weight, adds the vertex's weight
\* (DeleteNode: takes it away) to the cumulative weight of each of its strict
\* ancestors, and leaves every other vertex its whole record.
C24_Frame ==
    ((Returned("AddNode") \/ Returned("DeleteNode")) /\ last.err = "OK") =>
        LET adds == last.op = "AddNode"
            v == IF adds THEN StoreGetNode(store, last.id)
                         ELSE StoreGetNode(pre, last.id)
            anc == IF adds THEN StrictAncestors(store, last.id)
                           ELSE StrictAncestors(pre, last.id)
            delta == IF adds THEN v.Weight ELSE 0 - v.Weight
        IN  \A k \in (DOMAIN pre) \ {last.id} :
                /\ StoreHas(store, k)
                /\ StoreGetNode(store, k) =
                      [StoreGetNode(pre, k) EXCEPT
                          !.CumulativeWeight = IF k \in anc THEN @ + delta ELSE @]

\* C26: in every state the parents of every stored vertex hold no ID twice.
C26_NoDuplicateParents ==
    \A k \in DOMAIN store :
        LET ps == StoreGetNode(store, k).Parents
        IN  \A i, j \in DOMAIN ps : i # j => ps[i] # ps[j]

\* C27: in every state every stored vertex has a weight that is not
\* negative.
C27_NonNegativeWeights ==
    \A k \in DOMAIN store : StoreGetNode(store, k).Weight >= 0

\* C28: directly after a successful AddNode(v), and directly after
\* SyncWithPeer has merged a vertex v, no stored vertex lists v as a parent
\* and every parent of v is listed as a parent (by v); the parents that
\* AddNode selected for a v without parents were tips of the store before the
\* call.
C28_TipTurnover ==
    /\ (Returned("AddNode") /\ last.err = "OK") =>
          /\ ~(\E k \in DOMAIN store : last.id \in ParentSet(store, k))
          /\ \A p \in ParentSet(store, last.id) :
                /\ \E k \in DOMAIN store : p \in ParentSet(store, k)
                /\ last.node.NilParents =>
                      /\ StoreHas(pre, p)
                      /\ ~(\E k \in DOMAIN pre : p \in ParentSet(pre, k))
    /\ (Returned("SyncWithPeer") /\ last.merged # << >>) =>
          LET v == last.merged[Len(last.merged)]
          IN  /\ ~(\E k \in DOMAIN store : v \in ParentSet(store, k))
              /\ \A p \in ParentSet(store, v) :
                    \E k \in DOMAIN store : p \in ParentSet(store, k)

\* C28 happens: an AddNode without parents has succeeded on a store in which
\* some vertex was not a tip.
C28_Witness ==
    /\ Returned("AddNode") /\ last.err = "OK" /\ last.node.NilParents
    /\ \E k \in DOMAIN pre : HasChild(pre, k)

\* C29: every store that is not empty has a tip, SelectTipsMCMC never fails
\* with NoTips and AddNode never fails with a tip-selection error (every
\* parents path of the stores of the model has fewer than 10 edges).
C29_NoTipsUnreachable ==
    /\ DOMAIN store # {} => \E k \in DOMAIN store : ~HasChild(store, k)
    /\ Returned("SelectTipsMCMC") => last.err # "NoTips"
    /\ Returned("AddNode") => last.err # "SelectParents"

\* C29 happens: a selection has returned on a store with a parents path of
\* two edges.
C29_Witness ==
    /\ Returned("SelectTipsMCMC") /\ last.err = "OK"
    /\ \E k \in DOMAIN store :
          \E p \in ParentSet(store, k) : ParentSet(store, p) # {}

\* C30 as stated: AddNode of a fresh ID without parents never fails with
\* TooManyParents when maxParents >= 2 and then stores one or two distinct
\* parents on a store that is not empty; and the number of selected parents
\* never exceeds maxParents, so the call never fails with TooManyParents.
C30_Original ==
    (Returned("AddNode") /\ ~StoreHas(pre, last.id) /\ last.node.NilParents) =>
        /\ last.err # "TooManyParents"
        /\ (last.err = "OK" /\ DOMAIN pre # {}) =>
              LET ps == StoreGetNode(store, last.id).Parents
              IN  /\ Len(ps) \in {1, 2}
                  /\ \A i, j \in DOMAIN ps : i # j => ps[i] # ps[j]

\* C30 amended: AddNode of a fresh ID without parents asks for up to 2
\* tips.  With maxParents >= 2 it never fails with TooManyParents; when it
\* succeeds on a store that is not empty it stores one or two distinct
\* parents, and never more than maxParents.  With maxParents = 1 it fails
\* with TooManyParents, leaving the store as it was, when two tips were
\* selected, which takes a store with at least two tips.
C30_AutoSelectionBound ==
    (Returned("AddNode") /\ ~StoreHas(pre, last.id) /\ last.node.NilParents) =>
        /\ d.maxParents >= 2 => last.err # "TooManyParents"
        /\ (last.err = "OK" /\ DOMAIN pre # {}) =>
              LET ps == StoreGetNode(store, last.id).Parents
              IN  /\ Len(ps) \in {1, 2}
                  /\ Len(ps) <= d.maxParents
                  /\ \A i, j \in DOMAIN ps : i # j => ps[i] # ps[j]
        /\ last.err = "TooManyParents" =>
              /\ d.maxParents = 1
              /\ Cardinality({k \in DOMAIN pre : ~HasChild(pre, k)}) >= 2
              /\ store = pre

\* C30 happens: under maxParents = 1 an AddNode without parents has failed
\* with TooManyParents.
C30_Witness ==
    /\ Returned("AddNode") /\ ~StoreHas(pre, last.id) /\ last.node.NilParents
    /\ last.err = "TooManyParents"

\* C21: the is_tip of a GET /nodes/{id} response is true exactly when, in
\* the store from which the vertex of the response was read, no vertex lists
\* id as a parent.
C21_ConsistentSnapshot ==
    \A t \in Threads :
        (th[t].pc = "respond" /\ th[t].got # NoNode) =>
            (th[t].tip <=> th[t].snap)

\* C23: when reads and writes of the store can fail inside the weight
\* propagation of AddNode and DeleteNode, every state, also after further
\* calls and retries, keeps the parents of stored vertices stored, the
\* parents edges acyclic, each cumulative weight at least the weight, the
\* parents within maxParents, and each record under the key of its ID.
C23_BoundedDamage ==
    \A k \in DOMAIN store :
        LET n == StoreGetNode(store, k)
        IN  /\ Range(n.Parents) \subseteq DOMAIN store
            /\ k \notin UpClosure(store, Range(n.Parents))
            /\ n.Weight <= n.CumulativeWeight
            /\ Len(n.Parents) <= d.maxParents
            /\ n.ID = k

\* C23 happens: a call has failed inside its propagation and has returned,
\* and a stored vertex's cumulative weight is not its weight plus the
\* weights of its descendants.
C23_Witness ==
    /\ last.err = "StoreFailure" /\ last.op \in {"AddNode", "DeleteNode"}
    /\ th["t1"].pc = "idle"
    /\ \E k \in DOMAIN store :
          StoreGetNode(store, k).CumulativeWeight #
              StoreGetNode(store, k).Weight
              + SumWeights(store, StrictDescendants(store, k))

\* C25, as stated: a tip selection on any store starts at most
\* 10 x maxTips walks (maxTips <= 0 standing for maxParents) of at most
\* max(10, N div 2) rounds each and returns the tips or NoTips, the
\* ancestor traversal appends no ID to its queue twice, and both return.
C25_Original ==
    /\ [](/\ run.walks <= 10 * (IF run.arg <= 0 THEN d.maxParents ELSE run.arg)
          /\ run.iters <= (IF Cardinality(DOMAIN store) \div 2 > 10
                           THEN Cardinality(DOMAIN store) \div 2 ELSE 10)
          /\ (run.phase = "done" /\ run.op = "SelectTipsMCMC") =>
                 run.result \in {"OK", "NoTips"}
          /\ \A i, j \in DOMAIN run.enqueued :
                 run.enqueued[i] = run.enqueued[j] => i = j)
    /\ (run.phase # "idle") ~> (run.phase = "done")

\* C25, corrected: as above, but on the empty store the selection returns
\* EmptyDAG before any walk.
C25_Terminates ==
    /\ [](/\ run.walks <= 10 * (IF run.arg <= 0 THEN d.maxParents ELSE run.arg)
          /\ run.iters <= (IF Cardinality(DOMAIN store) \div 2 > 10
                           THEN Cardinality(DOMAIN store) \div 2 ELSE 10)
          /\ (run.phase = "done" /\ run.op = "SelectTipsMCMC") =>
                 /\ run.result \in {"OK", "NoTips", "EmptyDAG"}
                 /\ run.result = "EmptyDAG" <=> DOMAIN store = {}
                 /\ run.result = "EmptyDAG" => run.walks = 0
          /\ \A i, j \in DOMAIN run.enqueued :
                 run.enqueued[i] = run.enqueued[j] => i = j)
    /\ (run.phase # "idle") ~> (run.phase = "done")

\* C25 happens: on a store of more than 20 vertices without a tip a
\* selection has used up all its walks, the last of them of N div 2 rounds,
\* and has returned NoTips.
C25_Witness ==
    /\ Cardinality(DOMAIN store) \div 2 > 10
    /\ run.phase = "done" /\ run.result = "NoTips"
    /\ run.walks = 10 * run.maxTips
    /\ run.iters = Cardinality(DOMAIN store) \div 2

C31_Returns ==
    /\ \A e \in Engines, p \in Targets :
          (eng[e].sy[p].pc # "idle") ~>
              (eng[e].sy[p].pc = "idle" /\ eng[e].writer # p)
    /\ [](\A e \in Engines, p \in Targets :
            (eng[e].sy[p].pc = "unlock" /\ eng[e].sy[p].err # "OK") =>
                eng[e].store = eng[e].sy[p].pre)

\* Both programs hold their exclusive locks in SyncWithPeer of each other,
\* and one has its reply.
C31_MutualSync ==
    /\ \A e \in Engines : eng[e].writer = "peer" /\ eng[e].sy["peer"].pc = "fetch"
    /\ \E e \in Engines : eng[e].sy["peer"].req = "replied"

\* C22: a call that has taken the engine's lock takes no lock again and so
\* returns and releases the lock, and a caller that waits for the lock is
\* let in.
C22_NoSelfDeadlock ==
    \A t \in Threads :
        /\ (th[t].pc \notin {"idle", "call"}) ~> (th[t].pc = "idle")
        /\ (th[t].pc = "call") ~> (th[t].pc \notin {"idle", "call"})

\* C22 happens: an AddNode without parents runs inside the lock, on a store
\* that is not empty, while the other goroutine waits for the lock.
C22_Witness ==
    \E t, u \in Threads :
        /\ th[t].op = "AddNode" /\ th[t].pc = "update"
        /\ StoreGetNode(store, th[t].id).Parents # << >>
        /\ th[u].pc = "call"

====
